---- MODULE Spec2Model ----
(***************************************************************************)
(* Model of the multi-strategy OCR extraction engine                       *)
(* (src/OCR/ocr_core/app/ocr_engine.py, class SynapseOCRv3_2_0).           *)
(*                                                                         *)
(* One run of extract_text_optimized_v3 is a state machine:                *)
(*   detect -> preprocess -> grid (9 cells) -> done                        *)
(* The external calls (file reads, PDF rasterisation, Tesseract) are the   *)
(* environment: every call picks its outcome from a set of outcomes.       *)
(***************************************************************************)
EXTENDS Integers, Sequences, FiniteSets, TLC

VARIABLES
    image_path,           \* the input path and what reading it yields
    pc,                   \* position of the run
    tsv,                  \* the rows detect_language_fast read from Tesseract
    lang_mode,            \* result of detect_language_fast ('' before it ran)
    detect_error,         \* whether detect_language_fast took an error exit
    processed_images,     \* the candidate images of the run, in order
    ocr_configs,          \* the configuration list of the run
    img_idx, config_idx,  \* 0-based loop indices of the grid search
    best_text, best_confidence, best_strategy, best_bounding_boxes,
    attempts,             \* history: one record per grid cell tried
    stages,               \* history: stages of the run, in order
    warned,               \* the low-confidence warning was printed
    outcome,              \* "none" | "returned" | "raised"
    result,               \* the returned dict (a record), or NoResult
    input_text,           \* the argument of a function called on its own   
    out,                  \* what that call returned, or NoOutput
    uploads,              \* the files of UPLOAD_DIR, by name
    requests,             \* the /ocr requests in flight, by number
    http,                 \* what process_ocr answered for the run, or NoReply
    INTERNAL_API_KEY      \* os.getenv("OCR_INTERNAL_API_KEY"): << >> for None, or << value >>

vars == << image_path, pc, tsv, lang_mode, detect_error,
           processed_images, ocr_configs, img_idx, config_idx,
           best_text, best_confidence, best_strategy, best_bounding_boxes,
           attempts, stages, warned, outcome, result, input_text, out,
           uploads, requests, http, INTERNAL_API_KEY >>

\* the variables of the calls studied apart from a run
call_vars == << input_text, out, uploads, requests, http, INTERNAL_API_KEY >>

\* the variables of a run of the engine
run_vars == << image_path, pc, tsv, lang_mode, detect_error,
               processed_images, ocr_configs, img_idx, config_idx,
               best_text, best_confidence, best_strategy, best_bounding_boxes,
               attempts, stages, warned, outcome, result >>

(***************************************************************************)
(* Program constants.                                                      *)
(***************************************************************************)
MinTextLen == 50
LowConfidenceThreshold == 50

(***************************************************************************)
(* Python floats that are quotients of small integers are kept as reduced  *)
(* fractions [n, d], d > 0: a correctly rounded quotient is a monotone     *)
(* injective image of the exact one as long as the operands stay small.    *)
(***************************************************************************)
RECURSIVE GCD(_, _)
GCD(a, b) == IF b = 0 THEN a ELSE GCD(b, a % b)

Abs(x) == IF x < 0 THEN -x ELSE x

Frac(n, d) ==
    LET g == GCD(Abs(n), d)
    IN  IF n = 0 THEN [n |-> 0, d |-> 1] ELSE [n |-> n \div g, d |-> d \div g]

Zero == [n |-> 0, d |-> 1]

FracLt(a, b) == a.n * b.d < b.n * a.d

FracGt(a, b) == FracLt(b, a)

(***************************************************************************)
(* Tesseract's per-token table (pytesseract.image_to_data, Output.DICT).   *)
(* A token is one row: its confidence, its text's length and the length of *)
(* the text once stripped.  pytesseract hands the confidence over as an    *)
(* int, or (the -1 of a structural row, in releases that convert only      *)
(* digit strings) as the str '-1': conf_is_str tells which.                *)
(***************************************************************************)
Word(c, l) == [conf |-> c, conf_is_str |-> FALSE, text_len |-> l, strip_len |-> l]

RowStr == [conf |-> -1, conf_is_str |-> TRUE, text_len |-> 0, strip_len |-> 0]

RowInt == [conf |-> -1, conf_is_str |-> FALSE, text_len |-> 0, strip_len |-> 0]

Blank == [conf |-> 95, conf_is_str |-> FALSE, text_len |-> 1, strip_len |-> 0]

\* a filter that looks at the confidence only
KeptToken_ConfOnly(tok) == ~(tok.conf_is_str /\ tok.conf = -1)

\* data['conf'][i] != '-1' and data['text'][i].strip()
KeptToken(tok) == ~(tok.conf_is_str /\ tok.conf = -1) /\ tok.strip_len > 0

\* conf != -1 and word.strip()
KeptWord(tok) == ~(~tok.conf_is_str /\ tok.conf = -1) /\ tok.strip_len > 0

RECURSIVE Confidences(_)
Confidences(data) ==
    IF data = << >> THEN << >>
    ELSE LET rest == Confidences(Tail(data))
         IN  IF KeptToken(Head(data)) THEN << Head(data).conf >> \o rest ELSE rest

RECURSIVE BoundingBoxesFrom(_, _)
BoundingBoxesFrom(data, i) ==
    IF i > Len(data) THEN << >>
    ELSE LET rest == BoundingBoxesFrom(data, i + 1)
         IN  IF KeptToken(data[i])
             THEN << [text_len |-> data[i].strip_len,
                      confidence |-> data[i].conf,
                      row |-> i] >> \o rest
             ELSE rest

BoundingBoxes(data) == BoundingBoxesFrom(data, 1)

RECURSIVE Sum(_)
Sum(s) == IF s = << >> THEN 0 ELSE Head(s) + Sum(Tail(s))

\* sum(confidences) / len(confidences) if confidences else 0
AvgConf(confidences) ==
    IF confidences = << >> THEN Zero ELSE Frac(Sum(confidences), Len(confidences))

RECURSIVE WordLens(_)
WordLens(data) ==
    IF data = << >> THEN << >>
    ELSE LET rest == WordLens(Tail(data))
         IN  IF KeptWord(Head(data)) THEN << Head(data).text_len >> \o rest ELSE rest

\* len(' '.join(words))
JoinedLen(data) ==
    LET w == WordLens(data)
    IN  IF w = << >> THEN 0 ELSE Sum(w) + Len(w) - 1

(***************************************************************************)
(* What one OCR call of the grid search can come back with: an exception   *)
(* (from image_to_string, from image_to_data, or from int() on a           *)
(* confidence that is no integer), or a token table together with the      *)
(* length of image_to_string's text.                                       *)
(***************************************************************************)
Raises == [raises |-> TRUE, data |-> << >>, string_len |-> 0]

Table(data, n) == [raises |-> FALSE, data |-> data, string_len |-> n]

LowConf == 40
HighConf == 90
HalfLine == 25

\* mean 40.5, 61 characters joined
LowLong == Table(<< RowStr, Word(LowConf, HalfLine + 5), Word(LowConf + 1, HalfLine + 5) >>, 62)

\* mean 90, exactly MinTextLen characters joined
HighShort == Table(<< RowInt, Word(HighConf, HalfLine), Blank,
                      Word(HighConf, MinTextLen - 1 - HalfLine) >>, 51)

\* mean 90, MinTextLen + 1 characters joined
HighLong == Table(<< RowInt, Word(HighConf, HalfLine), Blank,
                     Word(HighConf, MinTextLen - HalfLine) >>, 52)

\* nothing recognised: structural rows only
NoWords == Table(<< RowStr, RowInt >>, 0)

\* mean 0, 61 characters joined: words Tesseract has no confidence in
ZeroLong == Table(<< RowInt, Word(0, HalfLine + 5), Word(0, HalfLine + 5) >>, 62)

EnglishOutcomes == { Raises, LowLong, HighShort, HighLong }

PersianOutcomes == { Raises, LowLong, HighLong }

(***************************************************************************)
(* Texts of the run are kept by origin: which grid cell produced them, how *)
(* long they are, and which normaliser they went through.                  *)
(***************************************************************************)
EmptyText == [by |-> << 0, 0 >>, len |-> 0, form |-> "raw"]

TextOf(i, j, n) == IF n = 0 THEN EmptyText ELSE [by |-> << i, j >>, len |-> n, form |-> "raw"]

\* normalize_persian_text / normalize_english_text map '' to ''
NormalizeText(form, t) == IF t.len = 0 THEN t ELSE [t EXCEPT !.form = form]

StructuredKeys == { "persian_words", "business_words", "persian_numbers",
                    "arabic_numbers", "phone_numbers", "emails", "dates" }

\* an extraction that is skipped when there is no text
ExtractStructured_WhenText(t) ==
    IF t.len = 0 THEN [k \in {} |-> 0] ELSE [k \in StructuredKeys |-> [matches_in |-> t]]

\* extract_structured_data: a record of the seven match lists of its argument
ExtractStructured(t) == [k \in StructuredKeys |-> [matches_in |-> t]]

EmptyDict == [k \in {} |-> 0]

\* an identifier that names the configuration first
StrategyId_ConfigFirst(i, j) == "S:" \o ToString(j + 1) \o "|C:" \o ToString(i + 1)

\* f"S:{img_idx + 1}|C:{config_idx + 1}"
StrategyId(i, j) == "S:" \o ToString(i + 1) \o "|C:" \o ToString(j + 1)

PersianConfigs ==
    << "--oem 1 --psm 11 -c preserve_interword_spaces=1 -c textord_heavy_nr=1",
       "--oem 1 --psm 6 -c preserve_interword_spaces=1 -c textord_heavy_nr=1",
       "--oem 1 --psm 3 -c preserve_interword_spaces=1 -c textord_heavy_nr=1" >>

EnglishConfigs ==
    << "--oem 1 --psm 11 -c preserve_interword_spaces=1 -c textord_heavy_nr=1 -c tessedit_pageseg_mode=11",
       "--oem 1 --psm 3 -c preserve_interword_spaces=1 -c textord_heavy_nr=1 -c tessedit_pageseg_mode=3",
       "--oem 1 --psm 4 -c preserve_interword_spaces=1 -c textord_heavy_nr=1 -c tessedit_pageseg_mode=4" >>

\* a generator that keeps a fourth candidate
PersianStrategies_Four ==
    << "minimal", "denoise+clahe+otsu", "contrast+sharpen+otsu", "adaptive" >>

PersianStrategies == << "minimal", "denoise+clahe+otsu", "contrast+sharpen+otsu" >>

EnglishStrategies == << "bilateral+clahe+unsharp", "nlmeans+clahe", "gamma+clahe" >>

(***************************************************************************)
(* Text functions.  A text is a sequence of characters; a character outside *)
(* printable ASCII is written by its code point ("u06CC" is U+06CC).        *)
(***************************************************************************)
PersianDigits ==
    { "u06F0", "u06F1", "u06F2", "u06F3", "u06F4", "u06F5", "u06F6", "u06F7", "u06F8", "u06F9" }

ArabicDigits ==
    { "u0660", "u0661", "u0662", "u0663", "u0664", "u0665", "u0666", "u0667", "u0668", "u0669" }

ArabicLetters ==
    { "u0628", "u0629", "u062A", "u062C", "u062F", "u0631", "u0632", "u0633", "u0634",
      "u0643", "u0644", "u0645", "u0646", "u0647", "u0648", "u0649", "u064A", "u067E",
      "u0686", "u06A9", "u06CC",
      "u0622", "u0627", "u062D", "u062E", "u0635", "u0639", "u063A", "u0641", "u06AF" }

\* [\u0600-\u06FF]
ArabicBlock == ArabicLetters \cup ArabicDigits \cup PersianDigits

AsciiDigits == { "0", "1", "2", "3", "4", "5", "6", "7", "8", "9" }

\* \d on a str pattern: every decimal digit
Digits == AsciiDigits \cup ArabicDigits \cup PersianDigits

\* \s, and what strip() removes
Whitespace == { " ", "\t", "\n", "\r" }

\* text.replace(old, new): left to right, occurrences that do not overlap
RECURSIVE ReplaceAll(_, _, _)
ReplaceAll(t, old, new) ==
    IF Len(t) < Len(old) THEN t
    ELSE IF SubSeq(t, 1, Len(old)) = old
         THEN new \o ReplaceAll(SubSeq(t, Len(old) + 1, Len(t)), old, new)
         ELSE << Head(t) >> \o ReplaceAll(Tail(t), old, new)

\* for old, new in table.items(): text = text.replace(old, new), from item k
\* on; no item changes an empty text
RECURSIVE ApplyTable(_, _, _)
ApplyTable(t, table, k) ==
    IF t = << >> \/ k > Len(table) THEN t
    ELSE ApplyTable(ReplaceAll(t, table[k][1], table[k][2]), table, k + 1)

\* the length of the longest prefix of t made of characters of class
RECURSIVE RunLen(_, _)
RunLen(t, class) ==
    IF t = << >> \/ Head(t) \notin class THEN 0 ELSE 1 + RunLen(Tail(t), class)

From(t, i) == SubSeq(t, i, Len(t))

Replacements ==
    << << << "u064A" >>, << "u06CC" >> >>,
       << << "u0649" >>, << "u06CC" >> >>,
       << << "u0643" >>, << "u06A9" >> >>,
       << << "u0629" >>, << "u0647" >> >>,
       << << "Y" >>, << "u06CC" >> >>,
       << << "K" >>, << "u06A9" >> >>,
       << << "o" >>, << "u06F0" >> >>,
       << << "O" >>, << "u06F0" >> >>,
       << << "u0660" >>, << "u06F0" >> >>,
       << << "u0661" >>, << "u06F1" >> >>,
       << << "u0662" >>, << "u06F2" >> >>,
       << << "u0663" >>, << "u06F3" >> >>,
       << << "u0664" >>, << "u06F4" >> >>,
       << << "u0665" >>, << "u06F5" >> >>,
       << << "u0666" >>, << "u06F6" >> >>,
       << << "u0667" >>, << "u06F7" >> >>,
       << << "u0668" >>, << "u06F8" >> >>,
       << << "u0669" >>, << "u06F9" >> >> >>

CharacterMergingFixes ==
    << << << "u0645", "u06CC", " ", "u0648", "u06CC", "u06A9" >>, << "u06CC", "u06A9", "u0634", "u0646", "u0628", "u0647" >> >>,
       << << "u0645", "u06CC", " ", "u06CC" >>, << "u0645", "u06CC" >> >>,
       << << "u0648", " ", "u06CC" >>, << "u0648", "u06CC" >> >>,
       << << "u0647", " ", "u06CC" >>, << "u0647", "u06CC" >> >>,
       << << "u0631", " ", "u06CC" >>, << "u0631", "u06CC" >> >>,
       << << "u062F", " ", "u06CC" >>, << "u062F", "u06CC" >> >>,
       << << "u0646", " ", "u06CC" >>, << "u0646", "u06CC" >> >>,
       << << "u0644", " ", "u06CC" >>, << "u0644", "u06CC" >> >>,
       << << "u0628", " ", "u06CC" >>, << "u0628", "u06CC" >> >>,
       << << "u062A", " ", "u06CC" >>, << "u062A", "u06CC" >> >>,
       << << "u0633", " ", "u06CC" >>, << "u0633", "u06CC" >> >>,
       << << "u06A9", " ", "u06CC" >>, << "u06A9", "u06CC" >> >>,
       << << "u0632", " ", "u06CC" >>, << "u0632", "u06CC" >> >>,
       << << "u062C", " ", "u06CC" >>, << "u062C", "u06CC" >> >>,
       << << "u0686", " ", "u06CC" >>, << "u0686", "u06CC" >> >>,
       << << "u067E", " ", "u06CC" >>, << "u067E", "u06CC" >> >>,
       << << "u0645", " ", "u06CC" >>, << "u0645", "u06CC" >> >>,
       << << " ", " " >>, << " " >> >>,
       << << " ", " ", " " >>, << " " >> >> >>

NumberFixes ==
    << << << "u06F0" >>, << "0" >> >>,
       << << "u06F1" >>, << "1" >> >>,
       << << "u06F2" >>, << "2" >> >>,
       << << "u06F3" >>, << "3" >> >>,
       << << "u06F4" >>, << "4" >> >>,
       << << "u06F5" >>, << "5" >> >>,
       << << "u06F6" >>, << "6" >> >>,
       << << "u06F7" >>, << "7" >> >>,
       << << "u06F8" >>, << "8" >> >>,
       << << "u06F9" >>, << "9" >> >>,
       << << "O" >>, << "0" >> >>,
       << << "l" >>, << "1" >> >>,
       << << "I" >>, << "1" >> >>,
       << << "Z" >>, << "2" >> >>,
       << << "S" >>, << "5" >> >>,
       << << "G" >>, << "6" >> >>,
       << << "B" >>, << "8" >> >> >>

ErrorFixes ==
    << << << "r", "n" >>, << "m" >> >>,
       << << "c", "l" >>, << "d" >> >>,
       << << "v", "v" >>, << "w" >> >>,
       << << "|" >>, << "I" >> >>,
       << << "0" >>, << "O" >> >>,
       << << "1" >>, << "I" >> >>,
       << << "5" >>, << "S" >> >>,
       << << "8" >>, << "B" >> >> >>

\* re.sub(r'([\u0600-\u06FF]{3,})([\u0600-\u06FF]{3,})', r'\1 \2', text): the
\* first group backs off to leave the second its three characters
RECURSIVE SplitLongRuns(_)
SplitLongRuns(t) ==
    IF t = << >> THEN << >>
    ELSE LET n == RunLen(t, ArabicBlock)
         IN  IF n >= 6
             THEN SubSeq(t, 1, n - 3) \o << " " >> \o SubSeq(t, n - 2, n)
                      \o SplitLongRuns(From(t, n + 1))
             ELSE IF n > 0 THEN SubSeq(t, 1, n) \o SplitLongRuns(From(t, n + 1))
             ELSE << Head(t) >> \o SplitLongRuns(Tail(t))

\* re.sub(r'(\d+)([\u0600-\u06FF])', r'\1 \2', text): the digits back off to
\* the last one that is followed by a character of the block
RECURSIVE DigitsThenLetter(_)
DigitsThenLetter(t) ==
    IF t = << >> THEN << >>
    ELSE LET m == RunLen(t, Digits)
             ends == { k \in 1..m : k < Len(t) /\ t[k + 1] \in ArabicBlock }
             k == CHOOSE x \in ends : \A y \in ends : y <= x
         IN  IF ends # {}
             THEN SubSeq(t, 1, k) \o << " ", t[k + 1] >> \o DigitsThenLetter(From(t, k + 2))
             ELSE << Head(t) >> \o DigitsThenLetter(Tail(t))

\* re.sub(r'([\u0600-\u06FF])(\d+)', r'\1 \2', text)
RECURSIVE LetterThenDigits(_)
LetterThenDigits(t) ==
    IF t = << >> THEN << >>
    ELSE LET m == RunLen(Tail(t), Digits)
         IN  IF Head(t) \in ArabicBlock /\ m > 0
             THEN << Head(t), " " >> \o SubSeq(t, 2, m + 1) \o LetterThenDigits(From(t, m + 2))
             ELSE << Head(t) >> \o LetterThenDigits(Tail(t))

\* re.sub(r'\s+', ' ', text)
RECURSIVE CollapseSpace(_)
CollapseSpace(t) ==
    IF t = << >> THEN << >>
    ELSE LET n == RunLen(t, Whitespace)
         IN  IF n > 0 THEN << " " >> \o CollapseSpace(From(t, n + 1))
             ELSE << Head(t) >> \o CollapseSpace(Tail(t))

\* text.strip()
RECURSIVE Strip(_)
Strip(t) ==
    IF t = << >> THEN t
    ELSE IF Head(t) \in Whitespace THEN Strip(Tail(t))
    ELSE IF t[Len(t)] \in Whitespace THEN Strip(SubSeq(t, 1, Len(t) - 1))
    ELSE t

\* Step 5 before the whitespace: ZWNJ becomes a space, ZWJ and ZWSP go
ZeroWidth(t) ==
    ReplaceAll(ReplaceAll(ReplaceAll(t, << "u200C" >>, << " " >>), << "u200D" >>, << >>),
               << "u200B" >>, << >>)

normalize_persian_text(t) ==
    LET step1 == ApplyTable(t, Replacements, 1)
        step2 == ApplyTable(step1, CharacterMergingFixes, 1)
        step3 == LetterThenDigits(DigitsThenLetter(SplitLongRuns(step2)))
        step4 == ApplyTable(step3, NumberFixes, 1)
    IN  Strip(CollapseSpace(ZeroWidth(step4)))

normalize_english_text(t) ==
    Strip(ApplyTable(CollapseSpace(t), ErrorFixes, 1))

(***************************************************************************)
(* extract_structured_data.  re.findall scans the text from the left: at   *)
(* each position the pattern either matches, and the scan goes on behind   *)
(* the match, or it does not, and the scan moves one character on.  Each   *)
(* pattern of the function is given by the length of its match at a        *)
(* position, 0 when there is none (no pattern here matches the empty       *)
(* text).                                                                  *)
(***************************************************************************)
Lower == { "a", "b", "c", "d", "e", "f", "g", "h", "i", "j", "k", "l", "m",
           "n", "o", "p", "q", "r", "s", "t", "u", "v", "w", "x", "y", "z" }

Upper == { "A", "B", "C", "D", "E", "F", "G", "H", "I", "J", "K", "L", "M",
           "N", "O", "P", "Q", "R", "S", "T", "U", "V", "W", "X", "Y", "Z" }

\* \w on a str pattern
WordChars == Lower \cup Upper \cup Digits \cup ArabicLetters \cup { "_" }

\* [A-Za-z0-9._%+-]
EmailLocal == Lower \cup Upper \cup AsciiDigits \cup { ".", "_", "%", "+", "-" }

\* [A-Za-z0-9.-]
EmailDomain == Lower \cup Upper \cup AsciiDigits \cup { ".", "-" }

\* [A-Z|a-z]: the bar is a member of the class
EmailTld == Lower \cup Upper \cup { "|" }

\* {2,} of the email pattern
MinTldLen == 2

\* {10,15} of the phone pattern, with more digits required
MinPhoneDigits_Twelve == 10 + 2

\* {10,15} of the phone pattern
MinPhoneDigits == 10

MaxPhoneDigits == 15

\* \b before position b of t: exactly one of t[b-1], t[b] is a word character
IsWordAt(t, k) == k \in 1..Len(t) /\ t[k] \in WordChars

Boundary(t, b) == IsWordAt(t, b - 1) # IsWordAt(t, b)

\* [0-9]{10,15} at position j: greedy
PhoneDigits(t, j) ==
    LET r == RunLen(From(t, j), AsciiDigits)
    IN  IF r >= MinPhoneDigits THEN (IF r > MaxPhoneDigits THEN MaxPhoneDigits ELSE r)
        ELSE 0

\* (?:\+98|0)?[0-9]{10,15} at position i: the prefix is tried first, then
\* the pattern without it
PhoneMatchLen(t, i) ==
    LET plus98 == i + 2 <= Len(t) /\ SubSeq(t, i, i + 2) = << "+", "9", "8" >>
        zero == t[i] = "0"
    IN  IF plus98 /\ PhoneDigits(t, i + 3) > 0 THEN 3 + PhoneDigits(t, i + 3)
        ELSE IF zero /\ PhoneDigits(t, i + 1) > 0 THEN 1 + PhoneDigits(t, i + 1)
        ELSE PhoneDigits(t, i)

\* \b[A-Za-z0-9._%+-]+@[A-Za-z0-9.-]+\.[A-Z|a-z]{2,}\b at position i.  The
\* local part is a whole run, as "@" is not of its class; the domain ends
\* before a "." of its own run, the last such "." being tried first, and the
\* ending is as long as a \b behind it allows.
EmailMatchLen(t, i) ==
    LET l == RunLen(From(t, i), EmailLocal)
        j == i + l + 1
        d == RunLen(From(t, j), EmailDomain)
        Ends(p) == { q \in MinTldLen..RunLen(From(t, p + 2), EmailTld) :
                        Boundary(t, p + 2 + q) }
        dots == { p \in j..(j + d - 2) : t[p + 1] = "." /\ Ends(p) # { } }
    IN  IF ~Boundary(t, i) \/ l = 0 \/ i + l > Len(t) THEN 0
        ELSE IF t[i + l] # "@" \/ dots = { } THEN 0
        ELSE LET p == CHOOSE x \in dots : \A y \in dots : y <= x
                 q == CHOOSE x \in Ends(p) : \A y \in Ends(p) : y <= x
             IN  p + 2 + q - i

\* a pattern of fixed shape, such as \d{4}-\d{2}-\d{2}: "d" stands for \d
ShapeMatchLen(shape, t, i) ==
    IF /\ i + Len(shape) - 1 <= Len(t)
       /\ \A k \in 1..Len(shape) :
            IF shape[k] = "d" THEN t[i + k - 1] \in Digits
            ELSE t[i + k - 1] = shape[k]
    THEN Len(shape) ELSE 0

MatchLen(pattern, t, i) ==
    CASE pattern.re = "class" -> RunLen(From(t, i), pattern.class)
      [] pattern.re = "phone" -> PhoneMatchLen(t, i)
      [] pattern.re = "email" -> EmailMatchLen(t, i)
      [] pattern.re = "shape" -> ShapeMatchLen(pattern.shape, t, i)

\* re.findall(pattern, t), scanning from position i on
RECURSIVE findall(_, _, _)
findall(pattern, t, i) ==
    IF i > Len(t) THEN << >>
    ELSE LET n == MatchLen(pattern, t, i)
         IN  IF n = 0 THEN findall(pattern, t, i + 1)
             ELSE << SubSeq(t, i, i + n - 1) >> \o findall(pattern, t, i + n)

\* set(xs)
SetOf(xs) == { xs[k] : k \in 1..Len(xs) }

\* list(S): the members of S, each once, in an order the code does not fix
RECURSIVE ListOf(_)
ListOf(S) ==
    IF S = { } THEN << >>
    ELSE LET x == CHOOSE y \in S : TRUE IN << x >> \o ListOf(S \ { x })

\* a list that keeps every match
list_set_Keep(xs) == xs

\* list(set(xs))
list_set(xs) == ListOf(SetOf(xs))

phone_pattern == [re |-> "phone"]

email_pattern == [re |-> "email"]

Year == << "d", "d", "d", "d" >>

Two == << "d", "d" >>

date_patterns ==
    << [re |-> "shape", shape |-> Year \o << "/" >> \o Two \o << "/" >> \o Two],
       [re |-> "shape", shape |-> Two \o << "/" >> \o Two \o << "/" >> \o Year],
       [re |-> "shape", shape |-> Year \o << "-" >> \o Two \o << "-" >> \o Two],
       [re |-> "shape", shape |-> Two \o << "-" >> \o Two \o << "-" >> \o Year] >>

\* dates.extend(re.findall(pattern, t)) for the patterns from k on
RECURSIVE AllDates(_, _)
AllDates(t, k) ==
    IF k > Len(date_patterns) THEN << >>
    ELSE findall(date_patterns[k], t, 1) \o AllDates(t, k + 1)

business_vocabulary ==
    { << "u0634", "u0631", "u06A9", "u062A" >>,
      << "u0633", "u0627", "u0632", "u0645", "u0627", "u0646" >>,
      << "u0645", "u0648", "u0633", "u0633", "u0647" >>,
      << "u0641", "u0627", "u06A9", "u062A", "u0648", "u0631" >>,
      << "u0628", "u0627", "u0631", "u0646", "u0627", "u0645", "u0647" >>,
      << "u06AF", "u0648", "u0627", "u0647", "u06CC" >>,
      << "u0628", "u06CC", "u0645", "u0647" >>,
      << "u0634", "u0645", "u0627", "u0631", "u0647" >>,
      << "u062A", "u0627", "u0631", "u06CC", "u062E" >>,
      << "u0645", "u0628", "u0644", "u063A" >>,
      << "u0631", "u06CC", "u0627", "u0644" >>,
      << "u062A", "u0648", "u0645", "u0627", "u0646" >>,
      << "u0622", "u062F", "u0631", "u0633" >>,
      << "u062A", "u0644", "u0641", "u0646" >>,
      << "u06A9", "u062F" >>,
      << "u0648", "u0632", "u0646" >>,
      << "u062A", "u0639", "u062F", "u0627", "u062F" >>,
      << "u0634", "u0631", "u062D" >>,
      << "u0628", "u0627", "u0646", "u06A9" >>,
      << "u062D", "u0633", "u0627", "u0628" >>,
      << "u0646", "u0627", "u0645" >>,
      << "u067E", "u0631", "u062F", "u0627", "u062E", "u062A" >>,
      << "u062D", "u0645", "u0644" >>,
      << "u06AF", "u0645", "u0631", "u06A9" >>,
      << "u0635", "u0627", "u062F", "u0631", "u0627", "u062A" >>,
      << "u0648", "u0627", "u0631", "u062F", "u0627", "u062A" >>,
      << "u0645", "u062D", "u0645", "u0648", "u0644", "u0647" >>,
      << "u06A9", "u0627", "u0646", "u062A", "u06CC", "u0646", "u0631" >>,
      << "u0628", "u0627", "u0631", "u06AF", "u06CC", "u0631", "u06CC" >> }

extract_structured_data(t) ==
    LET persian_words == list_set(findall([re |-> "class", class |-> ArabicBlock], t, 1))
        InVocabulary(word) == word \in business_vocabulary
    IN  [persian_words |-> persian_words,
         business_words |-> SelectSeq(persian_words, InVocabulary),
         persian_numbers |-> findall([re |-> "class", class |-> PersianDigits], t, 1),
         arabic_numbers |-> findall([re |-> "class", class |-> Digits], t, 1),
         phone_numbers |-> findall(phone_pattern, t, 1),
         emails |-> findall(email_pattern, t, 1),
         dates |-> list_set(AllDates(t, 1))]

(***************************************************************************)
(* Language detection (detect_language_fast).                              *)
(***************************************************************************)
PERSIAN == "fas"
ENGLISH == "eng"
MIXED == "fas+eng"

\* one row of the detector's TSV: parts[10] (parsable or not) and the
\* counts of Persian-script and Latin characters of parts[11]
DetToken(c, p, e) == [conf |-> c, parses |-> TRUE, persian_chars |-> p, english_chars |-> e]

(***************************************************************************)
(* Python floats of the detector are IEEE-754 binary64 values, computed     *)
(* here bit for bit.  A natural number below 2^60 is a pair of limbs        *)
(* [hi, lo] in base 2^30; a double is zero or m * 2^e with                  *)
(* 2^52 <= m < 2^53.  Every operation rounds to nearest, ties to even.      *)
(***************************************************************************)
Limb == 2 ^ 30

N2(h, l) == [hi |-> h, lo |-> l]

N2Zero == N2(0, 0)

N2One == N2(0, 1)

N2Add(a, b) ==
    LET l == a.lo + b.lo
    IN  N2(a.hi + b.hi + (l \div Limb), l % Limb)

\* a - b, for a >= b
N2Sub(a, b) ==
    IF a.lo >= b.lo THEN N2(a.hi - b.hi, a.lo - b.lo)
    ELSE N2(a.hi - b.hi - 1, a.lo + Limb - b.lo)

N2Geq(a, b) == a.hi > b.hi \/ (a.hi = b.hi /\ a.lo >= b.lo)

N2Double(a) == N2Add(a, a)

N2Half(a) == N2(a.hi \div 2, (a.lo \div 2) + (a.hi % 2) * (Limb \div 2))

N2Odd(a) == a.lo % 2 = 1

\* a * n, by doubling
RECURSIVE N2Times(_, _)
N2Times(a, n) ==
    IF n = 0 THEN N2Zero
    ELSE N2Add(N2Double(N2Times(a, n \div 2)), IF n % 2 = 1 THEN a ELSE N2Zero)

P52 == N2(2 ^ 22, 0)

P53 == N2(2 ^ 23, 0)

P54 == N2(2 ^ 24, 0)

Double(m, e) == [m |-> m, e |-> e]

DZero == Double(N2Zero, 0)

\* the double nearest to q * 2^e (+ a nonzero fraction of 2^e when sticky);
\* sticky is only passed with q >= 2^53
RECURSIVE RoundNearestEven(_, _, _)
RoundNearestEven(q, sticky, e) ==
    IF q = N2Zero THEN DZero
    ELSE IF ~N2Geq(q, P52) THEN RoundNearestEven(N2Double(q), sticky, e - 1)
    ELSE IF N2Geq(q, P54) THEN RoundNearestEven(N2Half(q), sticky \/ N2Odd(q), e + 1)
    ELSE IF N2Geq(q, P53)
         THEN LET m == N2Half(q)
                  up == N2Odd(q) /\ (sticky \/ N2Odd(m))
                  r == IF up THEN N2Add(m, N2One) ELSE m
              IN  IF r = P53 THEN Double(P52, e + 2) ELSE Double(r, e + 1)
    ELSE Double(q, e)

\* float(n) for a natural number n < 2^30
DFromInt(n) == RoundNearestEven(N2(0, n), FALSE, 0)

\* one step of restoring division by d: the next quotient bit
DivStep(s, d) ==
    LET bit == N2Geq(s.r, d)
    IN  [r |-> N2Double(IF bit THEN N2Sub(s.r, d) ELSE s.r),
         q |-> N2Add(N2Double(s.q), IF bit THEN N2One ELSE N2Zero),
         k |-> s.k - 1]

\* s.k steps of restoring division by d
RECURSIVE DivBits(_, _)
DivBits(s, d) == IF s.k = 0 THEN s ELSE DivBits(DivStep(s, d), d)

\* a / b, for b # 0.0
DDiv(a, b) ==
    IF a = DZero THEN DZero
    ELSE LET s == DivBits([r |-> a.m, q |-> N2Zero, k |-> 55], b.m)
         IN  RoundNearestEven(s.q, s.r # N2Zero, a.e - b.e - 54)

\* x shifted right by d bits, and whether a one was shifted out
RECURSIVE ShiftRight(_, _)
ShiftRight(s, d) ==
    IF d = 0 \/ s.v = N2Zero THEN s
    ELSE ShiftRight([v |-> N2Half(s.v), sticky |-> s.sticky \/ N2Odd(s.v)], d - 1)

\* a + b, for a, b >= 0.0
DAdd(a, b) ==
    IF a = DZero THEN b
    ELSE IF b = DZero THEN a
    ELSE LET big == IF a.e >= b.e THEN a ELSE b
             small == IF a.e >= b.e THEN b ELSE a
             x == N2Double(N2Double(big.m))
             y == ShiftRight([v |-> N2Double(N2Double(small.m)), sticky |-> FALSE],
                             big.e - small.e)
         IN  RoundNearestEven(N2Add(x, y.v), y.sticky, big.e - 2)

\* n * w, for a natural number n < 128
DTimes(n, w) == IF w = DZero THEN DZero ELSE RoundNearestEven(N2Times(w.m, n), FALSE, w.e)

\* a >= b, for a, b >= 0.0
DGeq(a, b) ==
    IF b = DZero THEN TRUE
    ELSE IF a = DZero THEN FALSE
    ELSE a.e > b.e \/ (a.e = b.e /\ N2Geq(a.m, b.m))

DOne == DFromInt(1)

DHundred == DFromInt(100)

\* the literals 0.60 and 0.55: the doubles nearest to 60/100 and 55/100
PersianThreshold == DDiv(DFromInt(60), DHundred)

EnglishThreshold == DDiv(DFromInt(55), DHundred)

\* conf = float(conf_str); 30.0 when that fails or gives a negative number
ConfOf(tok) == IF ~tok.parses \/ tok.conf < 0 THEN DFromInt(30) ELSE DFromInt(tok.conf)

\* weight = max(0.0, min(1.0, conf / 100.0))
Weight(tok) ==
    LET q == DDiv(ConfOf(tok), DHundred)
    IN  IF DGeq(q, DOne) THEN DOne ELSE q

\* total_persian after the rows of tsv, starting from acc
RECURSIVE TotalPersian(_, _)
TotalPersian(rows, acc) ==
    IF rows = << >> THEN acc
    ELSE TotalPersian(Tail(rows), DAdd(acc, DTimes(Head(rows).persian_chars, Weight(Head(rows)))))

\* total_english after the rows of tsv, starting from acc
RECURSIVE TotalEnglish(_, _)
TotalEnglish(rows, acc) ==
    IF rows = << >> THEN acc
    ELSE TotalEnglish(Tail(rows), DAdd(acc, DTimes(Head(rows).english_chars, Weight(Head(rows)))))

\* the decision of detect_language_fast on the rows it read
DetectDecision(rows) ==
    LET total_persian == TotalPersian(rows, DZero)
        total_english == TotalEnglish(rows, DZero)
        total == DAdd(total_persian, total_english)
    IN  IF total = DZero THEN MIXED
        ELSE IF total_english # DZero /\ total_persian = DZero THEN ENGLISH
        ELSE IF total_persian # DZero /\ total_english = DZero THEN PERSIAN
        ELSE IF DGeq(DDiv(total_persian, total), PersianThreshold) THEN PERSIAN
        ELSE IF DGeq(DDiv(total_english, total), EnglishThreshold) THEN ENGLISH
        ELSE MIXED

\* a crop that is not clipped to the page
CropBox_NoClip(h, w) ==
    LET m == IF h < w THEN h ELSE w
        third == m \div 3
        box_size == IF third > 150 THEN third ELSE 150
        x1 == (w - box_size) \div 2
        y1 == (h - box_size) \div 2
    IN  << x1, y1, x1 + box_size, y1 + box_size >>

\* the centre crop of an h x w page: << x1, y1, x2, y2 >>
CropBox(h, w) ==
    LET m == IF h < w THEN h ELSE w
        third == m \div 3
        box_size == IF third > 150 THEN third ELSE 150
        fx == (w - box_size) \div 2
        fy == (h - box_size) \div 2
        x1 == IF fx > 0 THEN fx ELSE 0
        y1 == IF fy > 0 THEN fy ELSE 0
        x2 == IF w < x1 + box_size THEN w ELSE x1 + box_size
        y2 == IF h < y1 + box_size THEN h ELSE y1 + box_size
    IN  << x1, y1, x2, y2 >>

CropSize(h, w) ==
    LET c == CropBox(h, w)
        dx == IF c[3] > c[1] THEN c[3] - c[1] ELSE 0
        dy == IF c[4] > c[2] THEN c[4] - c[2] ELSE 0
    IN  dx * dy

\* a detector that falls back to English
DetectFallback_English == ENGLISH

\* what the detector's except clause (and its two early exits) returns
DetectFallback == MIXED

PageSizes == { << 100, 400 >>, << 1200, 900 >> }

DetectRaises == [raises |-> TRUE, tsv |-> << >>]

DetectTsv(rows) == [raises |-> FALSE, tsv |-> rows]

DetectOutcomes ==
    { DetectRaises,
      DetectTsv(<< DetToken(HighConf, 0, 12) >>),
      DetectTsv(<< DetToken(HighConf, 9, 0), DetToken(-1, 0, 2) >>),
      DetectTsv(<< DetToken(HighConf, 5, 0), DetToken(HighConf, 0, 5) >>) }

(***************************************************************************)
(* The run.                                                                *)
(***************************************************************************)
NoResult == [none |-> TRUE]

\* the dict of the two outer except clauses
FailureDict(msg) ==
    [success |-> FALSE, error |-> msg, confidence |-> Zero, processing_time |-> 0,
     language_mode |-> lang_mode, structured_data |-> EmptyDict, strategy |-> "",
     bounding_boxes |-> << >>, version |-> "3.2.0", optimization |-> "speed+accuracy"]

\* the dict returned when the English path cannot rasterise the PDF
PdfFailureDict == [success |-> FALSE, error |-> "PDF conversion failed"]

\* best_confidence < 50.0
IsLowConfidence(conf) == FracLt(conf, Frac(LowConfidenceThreshold, 1))

\* a result that hands the best confidence over on the 0-100 scale
ResultConfidence_Unscaled(best) == best

\* "confidence": best_confidence / 100
ResultConfidence(best) == Frac(best.n, best.d * 100)

\* a run that succeeds only when some attempt became the best
SuccessFlag_Positive(conf) == FracGt(conf, Zero)

\* a run that reports a low best confidence as a failure
SuccessFlag_Confident(conf) == ~IsLowConfidence(conf)

\* "success": True
SuccessFlag(conf) == TRUE

\* a fold that lets an equal confidence replace the best
Improves_OrEqual(avg, best) == ~FracLt(avg, best)

\* avg_conf > best_confidence
Improves(avg, best) == FracGt(avg, best)

\* a gate that lets a text of exactly 50 characters through
LongEnough_AtLeast(n) == n >= MinTextLen

\* no gate at all
LongEnough_Always(n) == TRUE

\* len(text) > 50
LongEnough(n) == n > MinTextLen

\* a handler that leaves the inner loop
OnAttemptException_Break == "break"

\* no handler: the exception reaches the outer except clause
OnAttemptException_Raise == "raise"

\* except Exception as e: ... continue
OnAttemptException == "continue"

InitRun ==
    /\ image_path \in [pdf : BOOLEAN, readable : [1..2 -> BOOLEAN]]
    /\ pc = "detect"
    /\ tsv = << >>
    /\ lang_mode = ""
    /\ detect_error = FALSE
    /\ processed_images = << >>
    /\ ocr_configs = << >>
    /\ img_idx = 0
    /\ config_idx = 0
    /\ best_text = EmptyText
    /\ best_confidence = Zero
    /\ best_strategy = ""
    /\ best_bounding_boxes = << >>
    /\ attempts = << >>
    /\ stages = << >>
    /\ warned = FALSE
    /\ outcome = "none"
    /\ result = NoResult

NoOutput == [called |-> "none"]

\* the names uploads arrive under
Filenames == { "a.png", "b.png" }

NoFile == [bytes |-> "absent", of |-> 0]

\* no request was made: UPLOAD_DIR holds nothing
NoReply == [status |-> "none"]

InitIdle ==
    /\ uploads = [f \in Filenames |-> NoFile]
    /\ requests = << >>
    /\ http = NoReply
    /\ INTERNAL_API_KEY = << >>

Init == InitRun /\ input_text = << >> /\ out = NoOutput /\ InitIdle

\* detect_language_fast, called at the top of extract_text_optimized_v3, with
\* Tesseract answering one of outcomes
DetectWith(outcomes) ==
    /\ pc = "detect"
    /\ \E size \in PageSizes, o \in outcomes :
         LET loaded == image_path.readable[1]
             empty == CropSize(size[1], size[2]) = 0
             read == loaded /\ ~empty /\ ~o.raises
         IN  /\ tsv' = IF read THEN o.tsv ELSE << >>
             /\ lang_mode' = IF read THEN DetectDecision(o.tsv) ELSE DetectFallback
             /\ detect_error' = (~loaded \/ (~empty /\ o.raises))
    /\ pc' = "preprocess"
    /\ stages' = Append(stages, "DETECT_LANGUAGE")
    /\ UNCHANGED << image_path, processed_images, ocr_configs, img_idx, config_idx,
                    best_text, best_confidence, best_strategy, best_bounding_boxes,
                    attempts, warned, outcome, result, call_vars >>

DetectLanguage == DetectWith(DetectOutcomes)

\* lang_mode != 'eng': preprocess_optimized_v3, outside any try
PreprocessPersian ==
    /\ pc = "preprocess"
    /\ lang_mode # ENGLISH
    /\ IF image_path.readable[2]
       THEN /\ processed_images' = PersianStrategies
            /\ ocr_configs' = IF lang_mode = ENGLISH THEN EnglishConfigs ELSE PersianConfigs
            /\ pc' = "grid"
            /\ stages' = stages \o << "PREPROCESS", "GRID_SEARCH" >>
            /\ UNCHANGED outcome
       ELSE \* ValueError("Failed to convert PDF to images"), or Image.open's error
            /\ outcome' = "raised"
            /\ pc' = "done"
            /\ stages' = stages \o << "PREPROCESS", "FAILURE" >>
            /\ UNCHANGED << processed_images, ocr_configs >>
    /\ UNCHANGED << image_path, tsv, lang_mode, detect_error, img_idx, config_idx,
                    best_text, best_confidence, best_strategy, best_bounding_boxes,
                    attempts, warned, result, call_vars >>

\* lang_mode == 'eng': the head of _enhanced_english_processing_v3, inside its try
PreprocessEnglish ==
    /\ pc = "preprocess"
    /\ lang_mode = ENGLISH
    /\ IF image_path.readable[2]
       THEN /\ processed_images' = EnglishStrategies
            /\ ocr_configs' = EnglishConfigs
            /\ pc' = "grid"
            /\ stages' = stages \o << "PREPROCESS", "GRID_SEARCH" >>
            /\ UNCHANGED << outcome, result >>
       ELSE /\ result' = IF image_path.pdf
                         THEN PdfFailureDict
                         ELSE FailureDict("Enhanced English processing failed")
            /\ outcome' = "returned"
            /\ pc' = "done"
            /\ stages' = stages \o << "PREPROCESS", "FAILURE" >>
            /\ UNCHANGED << processed_images, ocr_configs >>
    /\ UNCHANGED << image_path, tsv, lang_mode, detect_error, img_idx, config_idx,
                    best_text, best_confidence, best_strategy, best_bounding_boxes,
                    attempts, warned, call_vars >>

OuterExceptMessage ==
    IF lang_mode = ENGLISH THEN "Enhanced English processing failed"
    ELSE "OCR processing failed"

\* one pass of the inner loop body: the cell (img_idx, config_idx)
AttemptWith(o) ==
    LET english == lang_mode = ENGLISH
        confidences == Confidences(o.data)
        bounding_boxes == BoundingBoxes(o.data)
        avg_conf == AvgConf(confidences)
        text == TextOf(img_idx + 1, config_idx + 1,
                       IF english THEN JoinedLen(o.data) ELSE o.string_len)
        better == IF english
                  THEN /\ confidences # << >>
                       /\ Improves(avg_conf, best_confidence)
                       /\ LongEnough(text.len)
                  ELSE Improves(avg_conf, best_confidence)
        last == config_idx + 1 = Len(ocr_configs)
        rec == [cell |-> << img_idx + 1, config_idx + 1 >>,
                raised |-> o.raises,
                avg_conf |-> IF o.raises THEN Zero ELSE avg_conf,
                text_len |-> IF o.raises THEN 0 ELSE text.len,
                boxes |-> IF o.raises THEN << >> ELSE bounding_boxes,
                data |-> o.data]
    IN  /\ attempts' = Append(attempts, rec)
        /\ IF o.raises /\ OnAttemptException = "raise"
           THEN /\ result' = FailureDict(OuterExceptMessage)
                /\ outcome' = "returned"
                /\ pc' = "done"
                /\ stages' = Append(stages, "FAILURE")
                /\ UNCHANGED << img_idx, config_idx >>
           ELSE /\ IF last \/ (o.raises /\ OnAttemptException = "break")
                   THEN img_idx' = img_idx + 1 /\ config_idx' = 0
                   ELSE img_idx' = img_idx /\ config_idx' = config_idx + 1
                /\ UNCHANGED << result, outcome, pc, stages >>
        /\ IF ~o.raises /\ better
           THEN /\ best_confidence' = avg_conf
                /\ best_text' = text
                /\ best_strategy' = StrategyId(img_idx, config_idx)
                /\ best_bounding_boxes' = bounding_boxes
           ELSE UNCHANGED << best_text, best_confidence, best_strategy,
                             best_bounding_boxes >>
        /\ UNCHANGED << image_path, tsv, lang_mode, detect_error, processed_images,
                        ocr_configs, warned, call_vars >>

\* the next cell of the grid, with Tesseract answering one of english (on the
\* English path) or one of persian
AttemptFrom(english, persian) ==
    /\ pc = "grid"
    /\ img_idx < Len(processed_images)
    /\ \E o \in (IF lang_mode = ENGLISH THEN english ELSE persian) : AttemptWith(o)

Attempt == AttemptFrom(EnglishOutcomes, PersianOutcomes)

\* a run that always normalises as Persian
NormalizerFor_Persian(mode) == "fas"

\* normalize_english_text if lang_mode == 'eng' (and on the English path),
\* normalize_persian_text otherwise
NormalizerFor(mode) == IF mode = ENGLISH THEN "eng" ELSE "fas"

\* a tail that extracts before it normalises
AfterGrid_ExtractFirst == << "SELECT_BEST", "EXTRACT_STRUCTURED", "NORMALIZE", "SUCCESS" >>

\* the statements after the loops, in source order
AfterGrid == << "SELECT_BEST", "NORMALIZE", "EXTRACT_STRUCTURED", "SUCCESS" >>

\* after the loops: warning, normalisation, extraction, the success dict
Finish ==
    /\ pc = "grid"
    /\ img_idx = Len(processed_images)
    /\ LET normalized_text == NormalizeText(NormalizerFor(lang_mode), best_text)
       IN  result' = [success |-> SuccessFlag(best_confidence),
                      raw_text |-> best_text,
                      normalized_text |-> normalized_text,
                      confidence |-> ResultConfidence(best_confidence),
                      processing_time |-> Len(attempts),
                      language_mode |-> lang_mode,
                      structured_data |-> ExtractStructured(normalized_text),
                      strategy |-> best_strategy,
                      bounding_boxes |-> best_bounding_boxes,
                      version |-> "3.2.0",
                      optimization |-> "speed+accuracy"]
    /\ warned' = (lang_mode # ENGLISH /\ IsLowConfidence(best_confidence))
    /\ outcome' = "returned"
    /\ pc' = "done"
    /\ stages' = stages \o AfterGrid
    /\ UNCHANGED << image_path, tsv, lang_mode, detect_error, processed_images, ocr_configs,
                    img_idx, config_idx, best_text, best_confidence, best_strategy,
                    best_bounding_boxes, attempts, call_vars >>

Next == DetectLanguage \/ PreprocessPersian \/ PreprocessEnglish \/ Attempt \/ Finish

Spec == Init /\ [][Next]_vars

\* every call of the run returns: a run that can take a step takes one
FairSpec == Spec /\ WF_vars(Next)

(***************************************************************************)
(* Runs on a readable image in which Tesseract mostly finds nothing it can *)
(* use: cells that raise, tables without a word, words of confidence 0     *)
(* and, on the English path, texts of at most 50 characters, next to one   *)
(* usable answer.                                                          *)
(***************************************************************************)
PoorEnglishOutcomes == { NoWords, ZeroLong, HighShort, HighLong }

PoorPersianOutcomes == { Raises, NoWords, ZeroLong, HighLong }

InitPoor == Init /\ image_path = [pdf |-> FALSE, readable |-> << TRUE, TRUE >>]

DetectEither ==
    DetectWith({ DetectTsv(<< DetToken(HighConf, 0, 12) >>),
                 DetectTsv(<< DetToken(HighConf, 9, 0), DetToken(-1, 0, 2) >>) })

AttemptPoor == AttemptFrom(PoorEnglishOutcomes, PoorPersianOutcomes)

NextPoor == DetectEither \/ PreprocessPersian \/ PreprocessEnglish \/ AttemptPoor \/ Finish

SpecPoor == InitPoor /\ [][NextPoor]_vars

(***************************************************************************)
(* process_ocr around a run: what the endpoint answers once                *)
(* extract_text_optimized_v3 returned or raised.                           *)
(***************************************************************************)
\* a method string without the engine's version
Method_NoVersion(version, strategy) == "OCR:" \o strategy

\* f"OCR:{result['version']}:{result['strategy']}"
Method(version, strategy) == "OCR:" \o version \o ":" \o strategy

\* the dict returned when result['success'] holds
Payload(r) ==
    [confidence |-> r.confidence,
     time |-> r.processing_time,
     raw_text |-> r.raw_text,
     normalized_text |-> r.normalized_text,
     bounding_boxes |-> Len(r.bounding_boxes),
     method |-> Method(r.version, r.strategy),
     file_path |-> image_path]

\* if result['success']: return {...}; otherwise, and when the run raised,
\* HTTPException(status_code=500)
ProcessOcrReturn ==
    /\ pc = "done"
    /\ http = NoReply
    /\ http' = IF outcome = "returned" /\ result.success
               THEN [status |-> "200", payload |-> Payload(result)]
               ELSE [status |-> "500"]
    /\ UNCHANGED << run_vars, input_text, out, uploads, requests,
                    INTERNAL_API_KEY >>

NextEndpoint == Next \/ ProcessOcrReturn

SpecEndpoint == Init /\ [][NextEndpoint]_vars

(***************************************************************************)
(* The detector on every short table of rows: the specification of the     *)
(* decision function of detect_language_fast.                              *)
(***************************************************************************)
MaxDetTokens == 2

DetConfs == { -1, 0, 72, 100 }

DetCounts == { << 9, 0 >>, << 0, 6 >>, << 0, 11 >>, << 3, 2 >> }

\* a row whose confidence column float() rejects
Unparsed(p, e) == [conf |-> 0, parses |-> FALSE, persian_chars |-> p, english_chars |-> e]

DetTokens ==
    { DetToken(c, n[1], n[2]) : c \in DetConfs, n \in DetCounts }
        \cup { Unparsed(n[1], n[2]) : n \in DetCounts }

DetTables == UNION { [1..k -> DetTokens] : k \in 0..MaxDetTokens }

InitDetect == Init /\ image_path = [pdf |-> FALSE, readable |-> << TRUE, TRUE >>]

DetectAnyTable == DetectWith({ DetectTsv(t) : t \in DetTables })

SpecDetect == InitDetect /\ [][DetectAnyTable]_vars

(***************************************************************************)
(* normalize_persian_text called on its own: once, and again on what the   *)
(* first call returned.  The texts are the sequences of at most MaxTextLen *)
(* characters of NormAlphabet: two Persian letters, the zero-width         *)
(* non-joiner and joiner, the space, an ASCII, an Eastern-Arabic and a     *)
(* Persian digit, and a Latin letter the tables read as a digit.           *)
(***************************************************************************)
MaxTextLen == 3

NormAlphabet == { "u0645", "u06CC", "u200C", "u200D", " ", "1", "u0663", "u06F1", "l" }

NormTexts == UNION { [1..k -> NormAlphabet] : k \in 0..MaxTextLen }

InitCall(texts) ==
    /\ InitRun
    /\ image_path = [pdf |-> FALSE, readable |-> << TRUE, TRUE >>]
    /\ input_text \in texts
    /\ out = NoOutput
    /\ InitIdle

InitNormalize == InitCall(NormTexts)

NormalizeTwice ==
    /\ out = NoOutput
    /\ out' = [called |-> "normalize_persian_text",
               once |-> normalize_persian_text(input_text),
               twice |-> normalize_persian_text(normalize_persian_text(input_text))]
    /\ UNCHANGED << run_vars, input_text, uploads, requests, http, INTERNAL_API_KEY >>

SpecNormalize == InitNormalize /\ [][NormalizeTwice]_vars

(***************************************************************************)
(* extract_structured_data called on its own.  The texts are the one of    *)
(* the documented example, "Contact: a@b.com, 09123456789, date            *)
(* 2024-01-05", and those obtained from it by putting another address,     *)
(* another number or another date in place of its own, and Persian words   *)
(* in front of it.                                                         *)
(***************************************************************************)
EmailPieces ==
    { << "a", "@", "b", ".", "c", "o", "m" >>,
      << "a", "@", "b", ".", "c" >>,
      << "x", ".", "y", "@", "c", ".", "d", ".", "o", "r", "g" >>,
      << "a", "@", "b" >>,
      << "a", "_", "b", "@", "c", "-", "d", ".", "c", "o", "|", "m" >> }

PhonePieces ==
    { << "0", "9", "1", "2", "3", "4", "5", "6", "7", "8", "9" >>,
      << "+", "9", "8", "9", "1", "2", "3", "4", "5", "6", "7", "8", "9" >>,
      << "0", "9", "1", "2", "3", "4", "5", "6", "7", "8" >>,
      << "9", "1", "2", "3", "4", "5", "6", "7", "8" >>,
      << "0", "9", "1", "2", "3", "4", "5", "6", "7", "8", "9", "0", "1", "2", "3", "4", "5", "6", "7" >> }

DatePieces ==
    { << "2", "0", "2", "4", "-", "0", "1", "-", "0", "5" >>,
      << "0", "5", "/", "0", "1", "/", "2", "0", "2", "4" >>,
      << "2", "0", "2", "4", "/", "0", "1", "/", "0", "5" >>,
      << "2", "4", "-", "1", "-", "5" >>,
      << "2", "0", "2", "4", "-", "0", "1", "-", "0", "5", "5" >>,
      << "2", "0", "2", "4", "-", "0", "1", "-", "0", "5", " ",
         "2", "0", "2", "4", "-", "0", "1", "-", "0", "5" >> }

\* Persian words put in front: none, a vocabulary word, a vocabulary word
\* twice around another word, two vocabulary words of which one comes twice
WordPieces ==
    { << >>,
      << "u06A9", "u062F", " " >>,
      << "u06A9", "u062F", " ", "u0645", "u0646", " ", "u06A9", "u062F", " " >>,
      << "u0646", "u0627", "u0645", " ", "u06A9", "u062F", " ", "u0646", "u0627", "u0645", " " >> }

ExampleText ==
    << "C", "o", "n", "t", "a", "c", "t", ":", " " >>
    \o << "a", "@", "b", ".", "c", "o", "m" >>
    \o << ",", " " >>
    \o << "0", "9", "1", "2", "3", "4", "5", "6", "7", "8", "9" >>
    \o << ",", " ", "d", "a", "t", "e", " " >>
    \o << "2", "0", "2", "4", "-", "0", "1", "-", "0", "5" >>

ExtractTexts ==
    { w \o << "C", "o", "n", "t", "a", "c", "t", ":", " " >> \o e \o << ",", " " >> \o p
        \o << ",", " ", "d", "a", "t", "e", " " >> \o d :
        w \in WordPieces, e \in EmailPieces, p \in PhonePieces, d \in DatePieces }

InitExtract == InitCall(ExtractTexts)

Extract ==
    /\ out = NoOutput
    /\ out' = [called |-> "extract_structured_data",
               data |-> extract_structured_data(input_text)]
    /\ UNCHANGED << run_vars, input_text, uploads, requests, http, INTERNAL_API_KEY >>

SpecExtract == InitExtract /\ [][Extract]_vars

(***************************************************************************)
(* The tail of a Persian/mixed run on its own: the best text is normalised *)
(* by normalize_persian_text and the result goes to                        *)
(* extract_structured_data.  The raw texts are one or two words separated  *)
(* by a space, each a word of the business vocabulary or another word.     *)
(***************************************************************************)
RawWords == business_vocabulary \cup { << "u0645", "u0646" >> }

RawTexts == RawWords \cup { v \o << " " >> \o w : v, w \in RawWords }

InitPipeline == InitCall(RawTexts)

\* normalized_text = self.normalize_persian_text(best_text);
\* structured = self.extract_structured_data(normalized_text)
NormalizeAndExtract ==
    /\ out = NoOutput
    /\ LET normalized_text == normalize_persian_text(input_text)
       IN  out' = [called |-> "persian_tail",
                   normalized_text |-> normalized_text,
                   structured_data |-> extract_structured_data(normalized_text)]
    /\ UNCHANGED << run_vars, input_text, uploads, requests, http, INTERNAL_API_KEY >>

SpecPipeline == InitPipeline /\ [][NormalizeAndExtract]_vars

(***************************************************************************)
(* The /ocr endpoint (process_ocr).  Each request carries a filename and a *)
(* document of its own and is handled by one worker process of the         *)
(* service.  A worker runs one event loop: a handler runs alone on it from *)
(* one await to the next, and process_ocr has a single await, the read of  *)
(* the upload, so that the rest of a handler is never interleaved with     *)
(* another handler of the same worker.  Handlers of different workers run  *)
(* at the same time, over the same UPLOAD_DIR.  The engine reads the saved *)
(* file twice: in detect_language_fast and in the preprocessing.  The      *)
(* requests carried the configured key.                                    *)
(***************************************************************************)
NumRequests == 2

NumWorkers == 2

Requests == 1..NumRequests

Workers == 1..NumWorkers

\* open(file_path, 'wb') leaves the file empty until the write
EmptyFile == [bytes |-> "empty", of |-> 0]

\* the file holding the whole upload of request r
Saved(r) == [bytes |-> "image", of |-> r]

NoResponse == [status |-> "none"]

\* what process_ocr answers when detect_language_fast read the file as
\* detect_saw and the preprocessing read it as ocr_saw: a file that holds no
\* image makes the preprocessing raise, which the handler turns into a 500
Response(detect_saw, ocr_saw) ==
    IF ocr_saw.bytes # "image" THEN [status |-> "500"]
    ELSE [status |-> "200", language_of |-> detect_saw.of, text_of |-> ocr_saw.of]

InitServer ==
    /\ InitRun
    /\ image_path = [pdf |-> FALSE, readable |-> << TRUE, TRUE >>]
    /\ input_text = << >>
    /\ out = NoOutput
    /\ http = NoReply
    /\ INTERNAL_API_KEY = << "k1" >>
    /\ uploads = [f \in Filenames |-> NoFile]
    /\ requests \in [Requests -> [filename : Filenames, worker : Workers,
                                  at : { "received" }, detect_saw : { NoFile },
                                  ocr_saw : { NoFile }, response : { NoResponse }]]

\* the event loop of r's worker is not inside another handler's statements
LoopFree(r) ==
    \A o \in Requests \ { r } :
        requests[o].worker = requests[r].worker =>
            requests[o].at \in { "received", "read", "responded" }

\* a statement of r's handler runs: r is at from and its worker's loop is free
Step(r, from) ==
    /\ requests[r].at = from
    /\ LoopFree(r)
    /\ UNCHANGED << run_vars, input_text, out, http, INTERNAL_API_KEY >>

\* original_name = file.filename ... contents = await file.read()
ReadUpload(r) ==
    /\ Step(r, "received")
    /\ requests' = [requests EXCEPT ![r].at = "read"]
    /\ UNCHANGED uploads

\* with open(file_path, 'wb') as destination
OpenFile(r) ==
    /\ Step(r, "read")
    /\ uploads' = [uploads EXCEPT ![requests[r].filename] = EmptyFile]
    /\ requests' = [requests EXCEPT ![r].at = "opened"]

\* destination.write(contents), and the file is closed
WriteFile(r) ==
    /\ Step(r, "opened")
    /\ uploads' = [uploads EXCEPT ![requests[r].filename] = Saved(r)]
    /\ requests' = [requests EXCEPT ![r].at = "saved"]

\* ocr = SynapseOCRv3_2_0(); extract_text_optimized_v3(file_path) reads the
\* file in detect_language_fast
DetectRead(r) ==
    /\ Step(r, "saved")
    /\ requests' = [requests EXCEPT ![r].at = "detected",
                                    ![r].detect_saw = uploads[requests[r].filename]]
    /\ UNCHANGED uploads

\* ... and again in preprocess_optimized_v3
PreprocessRead(r) ==
    /\ Step(r, "detected")
    /\ requests' = [requests EXCEPT ![r].at = "processed",
                                    ![r].ocr_saw = uploads[requests[r].filename]]
    /\ UNCHANGED uploads

\* the return, or the HTTPException
Respond(r) ==
    /\ Step(r, "processed")
    /\ requests' = [requests EXCEPT
                      ![r].at = "responded",
                      ![r].response = Response(requests[r].detect_saw,
                                               requests[r].ocr_saw)]
    /\ UNCHANGED uploads

NextServer ==
    \E r \in Requests :
        \/ ReadUpload(r)
        \/ OpenFile(r)
        \/ WriteFile(r)
        \/ DetectRead(r)
        \/ PreprocessRead(r)
        \/ Respond(r)

SpecServer == InitServer /\ [][NextServer]_vars

(***************************************************************************)
(* internal_request_middleware and verify_internal_call in front of the    *)
(* handlers.  One request: its path, and its x-internal-key header         *)
(* (<< >> when the header is missing, << value >> otherwise).  The         *)
(* configured key is what the environment held when the service started.   *)
(***************************************************************************)
KeyValues == { "", "k1", "k2" }

MaybeKey == { << >> } \cup { << v >> : v \in KeyValues }

Paths == { "/health", "/docs", "/openapi.json", "/ocr", "/health/", "/redoc" }

\* the paths the middleware lets through without a key
OpenPaths == { "/health", "/docs", "/openapi.json" }

\* Python's truth value of an optional string
Truthy(x) == x # << >> /\ x[1] # ""

\* a check that only compares the header with the configured key
verify_internal_call_CompareOnly(x_internal_key) == x_internal_key = INTERNAL_API_KEY

verify_internal_call(x_internal_key) ==
    IF ~Truthy(INTERNAL_API_KEY) THEN FALSE
    ELSE IF ~Truthy(x_internal_key) THEN FALSE
    ELSE x_internal_key = INTERNAL_API_KEY

InitGate ==
    /\ InitRun
    /\ image_path = [pdf |-> FALSE, readable |-> << TRUE, TRUE >>]
    /\ input_text = << >>
    /\ out = NoOutput
    /\ http = NoReply
    /\ uploads = [f \in Filenames |-> NoFile]
    /\ INTERNAL_API_KEY \in MaybeKey
    /\ requests \in [1..1 -> [path : Paths, header : MaybeKey, filename : { "a.png" },
                              at : { "sent" }, ocr_ran : { FALSE }]]

GateStep(r, from) ==
    /\ requests[r].at = from
    /\ UNCHANGED << run_vars, input_text, out, http, INTERNAL_API_KEY >>

\* if request.url.path in (...): return await call_next(request)
PassOpenPath(r) ==
    /\ GateStep(r, "sent")
    /\ requests[r].path \in OpenPaths
    /\ requests' = [requests EXCEPT ![r].at = "handler"]
    /\ UNCHANGED uploads

\* if not verify_internal_call(key): raise HTTPException(status_code=403)
Reject(r) ==
    /\ GateStep(r, "sent")
    /\ requests[r].path \notin OpenPaths
    /\ ~verify_internal_call(requests[r].header)
    /\ requests' = [requests EXCEPT ![r].at = "rejected"]
    /\ UNCHANGED uploads

\* return await call_next(request)
PassWithKey(r) ==
    /\ GateStep(r, "sent")
    /\ requests[r].path \notin OpenPaths
    /\ verify_internal_call(requests[r].header)
    /\ requests' = [requests EXCEPT ![r].at = "handler"]
    /\ UNCHANGED uploads

\* process_ocr: the upload is saved and the engine runs on it
HandleOcr(r) ==
    /\ GateStep(r, "handler")
    /\ requests[r].path = "/ocr"
    /\ uploads' = [uploads EXCEPT ![requests[r].filename] = Saved(r)]
    /\ requests' = [requests EXCEPT ![r].at = "handled", ![r].ocr_ran = TRUE]

\* health_check, the documentation routes, or no route at all
HandleOther(r) ==
    /\ GateStep(r, "handler")
    /\ requests[r].path # "/ocr"
    /\ requests' = [requests EXCEPT ![r].at = "handled"]
    /\ UNCHANGED uploads

NextGate ==
    \E r \in DOMAIN requests :
        \/ PassOpenPath(r)
        \/ Reject(r)
        \/ PassWithKey(r)
        \/ HandleOcr(r)
        \/ HandleOther(r)

SpecGate == InitGate /\ [][NextGate]_vars

(***************************************************************************)
(* The crop rectangle of detect_language_fast over every page of up to     *)
(* MaxSide pixels a side: pages narrower than the 150-pixel floor, pages   *)
(* between the floor and three times the floor, and pages whose third is   *)
(* larger than the floor.                                                  *)
(***************************************************************************)
MaxSide == 460

\* gray.shape: << h, w >>
PageShapes == (1..MaxSide) \X (1..MaxSide)

InitCrop == InitCall(PageShapes)

\* h, w = gray.shape; ...; crop = gray[y1:y2, x1:x2]
CropPage ==
    /\ out = NoOutput
    /\ out' = [called |-> "crop",
               box |-> CropBox(input_text[1], input_text[2])]
    /\ UNCHANGED << run_vars, input_text, uploads, requests, http, INTERNAL_API_KEY >>

SpecCrop == InitCrop /\ [][CropPage]_vars

(***************************************************************************)
(* Properties.                                                             *)
(***************************************************************************)
Best == << best_text, best_confidence, best_strategy, best_bounding_boxes >>

\* this step ran one grid cell
NewAttempt == Len(attempts') = Len(attempts) + 1

LastAttempt == attempts'[Len(attempts')]

StrategyOf(a) == StrategyId(a.cell[1] - 1, a.cell[2] - 1)

CellLeq(c, d) == c[1] < d[1] \/ (c[1] = d[1] /\ c[2] <= d[2])

GridFinished ==
    /\ pc \in { "grid", "done" }
    /\ processed_images # << >>
    /\ img_idx = Len(processed_images)

\* C1: on both paths the best result is replaced only by an attempt whose mean
\* confidence is strictly greater than the current best confidence, so the best
\* confidence never decreases, and an attempt that ties with the best leaves the
\* earlier one in place.
C1_StrictImprovement ==
    [][ /\ ~FracLt(best_confidence', best_confidence)
        /\ Best' # Best =>
             /\ NewAttempt
             /\ ~LastAttempt.raised
             /\ FracGt(LastAttempt.avg_conf, best_confidence)
             /\ best_confidence' = LastAttempt.avg_conf
             /\ best_strategy' = StrategyOf(LastAttempt)
        /\ (NewAttempt /\ LastAttempt.avg_conf = best_confidence) => Best' = Best
      ]_vars

\* An English run in which a low attempt was improved on by a high one and a
\* later attempt with the same high mean left the earlier one in place.
C1_Witness ==
    /\ lang_mode = ENGLISH
    /\ Len(attempts) >= 3
    /\ attempts[1].avg_conf = Frac(2 * LowConf + 1, 2)
    /\ attempts[2].avg_conf = Frac(HighConf, 1)
    /\ attempts[3].avg_conf = Frac(HighConf, 1)
    /\ \A k \in 1..3 : ~attempts[k].raised /\ attempts[k].text_len > MinTextLen
    /\ best_strategy = "S:1|C:2"
    /\ best_confidence = Frac(HighConf, 1)

Eligible(a) ==
    /\ ~a.raised
    /\ FracGt(a.avg_conf, Zero)
    /\ lang_mode = ENGLISH => a.text_len > MinTextLen

EligibleAttempts == { k \in 1..Len(attempts) : Eligible(attempts[k]) }

\* the order-independent reduction: greatest mean, then smallest cell
IsReference(k) ==
    /\ k \in EligibleAttempts
    /\ \A m \in EligibleAttempts :
         \/ FracLt(attempts[m].avg_conf, attempts[k].avg_conf)
         \/ /\ attempts[m].avg_conf = attempts[k].avg_conf
            /\ CellLeq(attempts[k].cell, attempts[m].cell)

\* C2: when the grid search is over, the best result of the sequential fold is
\* the eligible attempt of greatest mean confidence, ties going to the smallest
\* (candidate, configuration) pair; with no eligible attempt there is no best.
C2_FoldIsReduction ==
    GridFinished =>
        IF EligibleAttempts = {}
        THEN /\ best_strategy = ""
             /\ best_confidence = Zero
             /\ best_text = EmptyText
             /\ best_bounding_boxes = << >>
        ELSE \E k \in EligibleAttempts :
               /\ IsReference(k)
               /\ best_strategy = StrategyOf(attempts[k])
               /\ best_confidence = attempts[k].avg_conf
               /\ best_bounding_boxes = attempts[k].boxes
               /\ best_text.by = attempts[k].cell
               /\ best_text.len = attempts[k].text_len

\* A finished English grid with a failed cell, an ineligible cell of the
\* greatest mean and two eligible cells tied for the greatest eligible mean.
C2_Witness ==
    /\ GridFinished
    /\ lang_mode = ENGLISH
    /\ \E k \in 1..Len(attempts) : attempts[k].raised
    /\ \E k \in 1..Len(attempts) :
         ~attempts[k].raised /\ attempts[k].text_len <= MinTextLen
    /\ \E k, m \in EligibleAttempts :
         k # m /\ IsReference(k) /\ attempts[m].avg_conf = attempts[k].avg_conf
    /\ \E k \in EligibleAttempts : ~IsReference(k) /\ attempts[k].cell = << 1, 1 >>

\* C3: on the English path an attempt whose joined text has at most 50
\* characters never becomes the best result and leaves the best unchanged,
\* whatever its confidence.
C3_EnglishLengthGate ==
    [][ lang_mode = ENGLISH =>
          /\ (NewAttempt /\ LastAttempt.text_len <= MinTextLen) => Best' = Best
          /\ best_strategy' # "" =>
               /\ best_text'.len > MinTextLen
               /\ \E k \in 1..Len(attempts') :
                    /\ StrategyOf(attempts'[k]) = best_strategy'
                    /\ attempts'[k].text_len > MinTextLen
      ]_vars

\* An English run whose first attempt had the greatest mean of the run but 50
\* characters, and whose result is a later attempt of lower mean.
C3_Witness ==
    /\ pc = "done"
    /\ lang_mode = ENGLISH
    /\ outcome = "returned"
    /\ result.success
    /\ attempts[1].avg_conf = Frac(HighConf, 1)
    /\ attempts[1].text_len = MinTextLen
    /\ \A k \in 1..Len(attempts) : ~FracGt(attempts[k].avg_conf, attempts[1].avg_conf)
    /\ result.strategy = "S:1|C:2"
    /\ result.confidence = Frac(2 * LowConf + 1, 200)

GridOrder ==
    << << 1, 1 >>, << 1, 2 >>, << 1, 3 >>,
       << 2, 1 >>, << 2, 2 >>, << 2, 3 >>,
       << 3, 1 >>, << 3, 2 >>, << 3, 3 >> >>

AttemptedCells == [k \in 1..Len(attempts) |-> attempts[k].cell]

\* C4: every run that reaches the grid search tries the nine (candidate,
\* configuration) pairs once each, candidate by candidate, and ends only after
\* the ninth.
C4_ExhaustiveProduct ==
    /\ Len(attempts) <= Len(GridOrder)
    /\ AttemptedCells = SubSeq(GridOrder, 1, Len(attempts))
    /\ (pc = "done" /\ processed_images # << >>) => AttemptedCells = GridOrder

\* A finished run whose first cell failed and whose second cell had the
\* greatest confidence.
C4_Witness ==
    /\ pc = "done"
    /\ Len(attempts) = Len(GridOrder)
    /\ attempts[1].raised
    /\ attempts[2].avg_conf = Frac(HighConf, 1)
    /\ best_strategy = "S:1|C:2"

NextCell(i, j) == IF j + 1 = 3 THEN << i + 1, 0 >> ELSE << i, j + 1 >>

\* C5: an exception of one grid cell leaves the best result as it was, does not
\* end the run, and the search goes on with the next cell.
C5_AttemptExceptionSkipped ==
    [][ (NewAttempt /\ LastAttempt.raised) =>
          /\ Best' = Best
          /\ pc' = "grid"
          /\ outcome' = "none"
          /\ result' = NoResult
          /\ << img_idx', config_idx' >> = NextCell(img_idx, config_idx)
      ]_vars

\* A successful run in which a cell failed after a best result existed, and
\* that best result was returned.
C5_Witness ==
    /\ pc = "done"
    /\ outcome = "returned"
    /\ result.success
    /\ ~attempts[1].raised
    /\ \A k \in 2..Len(attempts) : attempts[k].raised
    /\ Len(attempts) = Len(GridOrder)
    /\ result.strategy = "S:1|C:1"
    /\ result.bounding_boxes # << >>

Has(r, k) == k \in DOMAIN r

Corrupt == ~image_path.readable[1] /\ ~image_path.readable[2]

Failed == outcome = "raised" \/ (outcome = "returned" /\ ~result.success)

\* C6: for a PDF that cannot be rasterised, the run returns a result with
\* success = false, a non-empty error, no bounding boxes and no structured data.
C6_CorruptPdfReturnsFailure ==
    (pc = "done" /\ image_path.pdf /\ Corrupt) =>
        /\ outcome = "returned"
        /\ ~result.success
        /\ Has(result, "error") /\ result.error # ""
        /\ Has(result, "bounding_boxes") /\ result.bounding_boxes = << >>
        /\ Has(result, "structured_data") /\ DOMAIN result.structured_data = {}

\* C7: every returned result with success = false has an error message,
\* confidence 0.0, processing_time 0.0, no structured data and no bounding boxes.
C7_FailureDictComplete ==
    (outcome = "returned" /\ ~result.success) =>
        /\ Has(result, "error") /\ result.error # ""
        /\ Has(result, "confidence") /\ result.confidence = Zero
        /\ Has(result, "processing_time") /\ result.processing_time = 0
        /\ Has(result, "structured_data") /\ DOMAIN result.structured_data = {}
        /\ Has(result, "bounding_boxes") /\ result.bounding_boxes = << >>

\* C8: a run raises or returns success = false only when its input could not be
\* loaded; failed grid cells, a best confidence under 50 and a failed language
\* detection end in a success result.
C8_OnlyInputErrorsFail ==
    /\ Failed => ~image_path.readable[2]
    /\ (pc = "done" /\ image_path.readable[2]) => (outcome = "returned" /\ result.success)

\* A success result of a run whose language detection failed, one of whose grid
\* cells raised, and whose best confidence is under 50.
C8_Witness ==
    /\ pc = "done"
    /\ outcome = "returned"
    /\ result.success
    /\ detect_error
    /\ \E k \in 1..Len(attempts) : attempts[k].raised
    /\ best_strategy # ""
    /\ IsLowConfidence(best_confidence)

\* C9: language detection always hands over to preprocessing with a language
\* mode; when it could not load the page or its OCR raised, that mode is MIXED.
C9_DetectNeverFails ==
    [][ pc = "detect" =>
          /\ pc' = "preprocess"
          /\ outcome' = "none"
          /\ result' = NoResult
          /\ lang_mode' \in { PERSIAN, ENGLISH, MIXED }
          /\ (detect_error' \/ ~image_path.readable[1]) => lang_mode' = MIXED
      ]_vars

\* A run in the grid search after a language detection whose OCR raised on a
\* page it had loaded.
C9_Witness ==
    /\ pc = "grid"
    /\ detect_error
    /\ image_path.readable[1]
    /\ lang_mode = MIXED
    /\ attempts # << >>

(***************************************************************************)
(* The decision function of the detector in exact arithmetic: weights in   *)
(* hundredths, totals as integers, ratios compared by cross-multiplying.   *)
(***************************************************************************)
ExactWeight(tok) ==
    LET conf == IF ~tok.parses \/ tok.conf < 0 THEN 30 ELSE tok.conf
    IN  IF conf > 100 THEN 100 ELSE conf

RECURSIVE ExactPersian(_)
ExactPersian(rows) ==
    IF rows = << >> THEN 0
    ELSE Head(rows).persian_chars * ExactWeight(Head(rows)) + ExactPersian(Tail(rows))

RECURSIVE ExactEnglish(_)
ExactEnglish(rows) ==
    IF rows = << >> THEN 0
    ELSE Head(rows).english_chars * ExactWeight(Head(rows)) + ExactEnglish(Tail(rows))

ExactDecision(rows) ==
    LET tp == ExactPersian(rows)
        te == ExactEnglish(rows)
    IN  IF tp + te = 0 THEN MIXED
        ELSE IF tp = 0 THEN ENGLISH
        ELSE IF te = 0 THEN PERSIAN
        ELSE IF 100 * tp >= 60 * (tp + te) THEN PERSIAN
        ELSE IF 100 * te >= 55 * (tp + te) THEN ENGLISH
        ELSE MIXED

\* C10: on every table of rows it reads, detect_language_fast returns MIXED
\* when both weighted totals are zero, the one language whose total is
\* nonzero when the other is zero, otherwise PERSIAN when the Persian share
\* of the weighted total is at least 0.60, else ENGLISH when the English
\* share is at least 0.55, else MIXED.
C10_DecisionFunction ==
    (pc = "preprocess" /\ ~detect_error) => lang_mode = ExactDecision(tsv)

\* the candidate list each language mode gets
CandidatesOf(mode) ==
    IF mode = ENGLISH
    THEN << "bilateral+clahe+unsharp", "nlmeans+clahe", "gamma+clahe" >>
    ELSE << "minimal", "denoise+clahe+otsu", "contrast+sharpen+otsu" >>

Preprocessed == \E k \in 1..Len(stages) : stages[k] = "GRID_SEARCH"

\* C11: for every language mode, a preprocessing that completes yields
\* exactly 3 candidate images, in the fixed order of that mode.
C11_ThreeCandidates ==
    Preprocessed =>
        /\ lang_mode \in { PERSIAN, ENGLISH, MIXED }
        /\ Len(processed_images) = 3
        /\ processed_images = CandidatesOf(lang_mode)

C11_Witness ==
    /\ pc = "grid"
    /\ lang_mode = MIXED
    /\ Len(processed_images) = 3
    /\ img_idx = 2

\* the mean of the token confidences of attempt a is the best confidence
MeanOf(a) == ~a.raised /\ a.avg_conf = best_confidence

StrategyNames ==
    << << "S:1|C:1", "S:1|C:2", "S:1|C:3" >>,
       << "S:2|C:1", "S:2|C:2", "S:2|C:3" >>,
       << "S:3|C:1", "S:3|C:2", "S:3|C:3" >> >>

\* the result's text, confidence and boxes are those of attempt a
ResultIsAttempt(a) ==
    /\ ~a.raised
    /\ result.raw_text = [by |-> a.cell, len |-> a.text_len, form |-> "raw"]
    /\ result.confidence.n * 100 * a.avg_conf.d = a.avg_conf.n * result.confidence.d
    /\ result.bounding_boxes = a.boxes

\* C13: the strategy of a success result is "" or "S:i|C:j" with i, j in 1..3;
\* when it is "S:i|C:j" the raw text, the confidence and the bounding boxes of
\* the result all come from the one attempt at candidate i, configuration j.
C13_StrategyNamesItsAttempt ==
    (outcome = "returned" /\ result.success) =>
        \/ /\ result.strategy = ""
           /\ result.raw_text = EmptyText
           /\ result.confidence = Zero
           /\ result.bounding_boxes = << >>
        \/ \E i \in 1..3, j \in 1..3 :
              /\ result.strategy = StrategyNames[i][j]
              /\ \E k \in 1..Len(attempts) :
                    attempts[k].cell = << i, j >> /\ ResultIsAttempt(attempts[k])

\* a run whose best is the attempt of candidate 2, configuration 3, with
\* other successful attempts before and after it
C13_Witness ==
    /\ outcome = "returned"
    /\ result.success
    /\ result.strategy = "S:2|C:3"
    /\ ~attempts[1].raised
    /\ ~attempts[9].raised

\* C14: a run whose grid search ends with a best confidence below 50 still
\* returns success = true, with the text, confidence, strategy and bounding
\* boxes of the best result, on both language paths.
C14_LowConfidenceStillSucceeds ==
    (pc = "done" /\ GridFinished /\ IsLowConfidence(best_confidence)) =>
        /\ outcome = "returned"
        /\ result.success
        /\ result.raw_text = best_text
        /\ result.confidence.n * 100 * best_confidence.d
               = best_confidence.n * result.confidence.d
        /\ result.strategy = best_strategy
        /\ result.bounding_boxes = best_bounding_boxes

\* an English run in which no attempt became the best: confidence 0
C14_Witness ==
    /\ pc = "done"
    /\ GridFinished
    /\ lang_mode = ENGLISH
    /\ best_confidence = Zero
    /\ outcome = "returned"
    /\ result.success
    /\ \E k \in 1..Len(attempts) : ~attempts[k].raised

\* C15: on either language path, a run whose best confidence after all
\* attempts is below 50 emits the low-confidence warning before it returns its
\* result, and a run whose best confidence is 50 or more emits none.
C15_LowConfidenceWarning ==
    (pc = "done" /\ GridFinished /\ outcome = "returned") =>
        (warned <=> IsLowConfidence(best_confidence))

\* C18: every success result, on either path and also when no attempt became
\* the best, has a structured_data record with exactly the seven keys, each
\* computed from the result's normalized text.
C18_ExtractionAlwaysRuns ==
    (outcome = "returned" /\ result.success) =>
        /\ DOMAIN result.structured_data
               = { "persian_words", "business_words", "persian_numbers",
                   "arabic_numbers", "phone_numbers", "emails", "dates" }
        /\ \A k \in DOMAIN result.structured_data :
               result.structured_data[k] = [matches_in |-> result.normalized_text]
        /\ result.normalized_text
               = NormalizeText(IF result.language_mode = ENGLISH THEN "eng" ELSE "fas",
                               result.raw_text)

\* an English run that ends with the initial empty best
C18_Witness ==
    /\ outcome = "returned"
    /\ result.success
    /\ result.language_mode = ENGLISH
    /\ result.strategy = ""
    /\ result.normalized_text = EmptyText
    /\ Cardinality(DOMAIN result.structured_data) = 7

StateOrder ==
    << "DETECT_LANGUAGE", "PREPROCESS", "GRID_SEARCH", "SELECT_BEST", "NORMALIZE",
       "EXTRACT_STRUCTURED", "SUCCESS" >>

LastStage == IF stages = << >> THEN "" ELSE stages[Len(stages)]

Count(stage) == Cardinality({ k \in 1..Len(stages) : stages[k] = stage })

\* stages is a run of the state order from its start, ended by nothing yet, by
\* SUCCESS as its seventh state, or by FAILURE in place of a later state
FollowsStateOrder ==
    \/ /\ Len(stages) <= Len(StateOrder)
       /\ stages = SubSeq(StateOrder, 1, Len(stages))
    \/ /\ Len(stages) \in 2..Len(StateOrder)
       /\ SubSeq(stages, 1, Len(stages) - 1) = SubSeq(StateOrder, 1, Len(stages) - 1)
       /\ LastStage = "FAILURE"

C19_Stages ==
    /\ FollowsStateOrder
    /\ (pc = "done") <=> (LastStage \in { "SUCCESS", "FAILURE" })
    /\ (pc = "done") <=> (outcome # "none")
    /\ LastStage = "SUCCESS" =>
           /\ outcome = "returned" /\ result.success
           /\ AttemptedCells = GridOrder
           /\ Count("NORMALIZE") = 1 /\ Count("EXTRACT_STRUCTURED") = 1
           /\ result.raw_text = best_text
           /\ result.normalized_text
                  = NormalizeText(IF lang_mode = ENGLISH THEN "eng" ELSE "fas", best_text)
           /\ result.structured_data = ExtractStructured(result.normalized_text)
    /\ LastStage = "FAILURE" =>
           /\ outcome = "raised" \/ (outcome = "returned" /\ ~result.success)
           /\ Count("NORMALIZE") = 0 /\ Count("EXTRACT_STRUCTURED") = 0

\* C19: every run goes through DETECT_LANGUAGE, PREPROCESS, GRID_SEARCH,
\* SELECT_BEST, NORMALIZE, EXTRACT_STRUCTURED in that order and, when every call
\* returns, ends in exactly one of SUCCESS and FAILURE; SUCCESS comes only
\* after all nine cells were attempted and the final best was normalised and
\* extracted once each, and nothing runs after FAILURE.
C19_StateOrder == [](C19_Stages) /\ <>(pc = "done") /\ [][pc # "done"]_vars

C19_Witness ==
    /\ stages = StateOrder
    /\ \E k \in 1..Len(attempts) : attempts[k].raised
    /\ best_strategy # ""

\* C16: normalize_persian_text is idempotent: normalising a text it already
\* normalised returns that text unchanged, for every input text.
C16_NormalizeIdempotent ==
    out.called = "normalize_persian_text" => out.twice = out.once

\* C17: extract_structured_data applied to the text "Contact: a@b.com,
\* 09123456789, date 2024-01-05" yields exactly one email, exactly one phone
\* match and exactly one date match, "2024-01-05".
C17_ExampleExtraction ==
    (out.called = "extract_structured_data" /\ input_text = ExampleText) =>
        /\ Len(out.data.emails) = 1
        /\ Len(out.data.phone_numbers) = 1
        /\ out.data.dates = << << "2", "0", "2", "4", "-", "0", "1", "-", "0", "5" >> >>

C17_Witness ==
    /\ out.called = "extract_structured_data"
    /\ input_text = ExampleText
    /\ out.data.emails = << << "a", "@", "b", ".", "c", "o", "m" >> >>
    /\ out.data.phone_numbers = << << "0", "9", "1", "2", "3", "4", "5", "6", "7", "8", "9" >> >>

\* the response computed from the document request r uploaded
OwnResponse(r) == Response(Saved(r), Saved(r))

\* two requests handled by the same worker: each response is computed from
\* the request's own document
SameWorkerOwnContent ==
    \A r \in Requests :
        (requests # << >> /\ requests[r].at = "responded"
           /\ \A o \in Requests : requests[o].worker = requests[r].worker) =>
            requests[r].response = OwnResponse(r)

\* uploads under different names: each response is computed from the
\* request's own document
OtherNameOwnContent ==
    \A r \in Requests :
        (requests # << >> /\ requests[r].at = "responded"
           /\ \A o \in Requests \ { r } : requests[o].filename # requests[r].filename) =>
            requests[r].response = OwnResponse(r)

\* C20: when two documents are processed concurrently through the /ocr
\* endpoint, under every interleaving each response is the result computed
\* from that request's own file content, including when both uploads carry
\* the same filename.
C20_OwnContent ==
    \A r \in DOMAIN requests :
        requests[r].at = "responded" => requests[r].response = OwnResponse(r)

\* C21: the /ocr endpoint returns an OCR payload exactly when the engine
\* returned success=true, with method = "OCR:" + version + ":" + strategy and
\* bounding_boxes the number of bounding boxes of the best result; when the
\* engine returned success=false or raised, it answers 500 without a payload.
C21_EndpointPayload ==
    http # NoReply =>
        /\ (http.status = "200") = (outcome = "returned" /\ result.success)
        /\ http.status = "200" =>
              /\ http.payload.method = "OCR:" \o "3.2.0" \o ":" \o best_strategy
              /\ http.payload.bounding_boxes = Len(best_bounding_boxes)
        /\ http.status # "200" => (http.status = "500" /\ DOMAIN http = { "status" })

C21_Witness ==
    /\ http.status = "200"
    /\ http.payload.method = "OCR:3.2.0:S:2|C:1"
    /\ http.payload.bounding_boxes = 2

C21_WitnessFailure == http.status = "500" /\ outcome = "raised"

\* the rows of a token table that are neither structural (confidence -1)
\* nor blank once trimmed
Remaining(data) == { i \in 1..Len(data) : data[i].conf # -1 /\ data[i].strip_len > 0 }

RECURSIVE SumOver(_, _, _)
SumOver(data, rows, field) ==
    IF rows = { } THEN 0
    ELSE LET i == CHOOSE x \in rows : TRUE
         IN  data[i][field] + SumOver(data, rows \ { i }, field)

\* the arithmetic mean of the confidences of the remaining rows, 0 if none
MeanOfRemaining(data) ==
    IF Remaining(data) = { } THEN Zero
    ELSE Frac(SumOver(data, Remaining(data), "conf"), Cardinality(Remaining(data)))

\* the length of the remaining words joined by single spaces
JoinedRemaining(data) ==
    IF Remaining(data) = { } THEN 0
    ELSE SumOver(data, Remaining(data), "text_len") + Cardinality(Remaining(data)) - 1

AttemptDiscards(a) ==
    /\ a.avg_conf = MeanOfRemaining(a.data)
    /\ { a.boxes[k].row : k \in 1..Len(a.boxes) } = Remaining(a.data)
    /\ Len(a.boxes) = Cardinality(Remaining(a.data))
    /\ \A k \in 1..Len(a.boxes) : a.boxes[k].confidence = a.data[a.boxes[k].row].conf
    /\ (lang_mode = ENGLISH /\ Remaining(a.data) # { }) =>
           a.text_len = JoinedRemaining(a.data)

\* C22: in every grid-search attempt on both paths, a token whose confidence
\* is the sentinel -1 or whose text is empty after trimming is discarded: it
\* adds nothing to the mean confidence, to the bounding boxes or (English
\* path) to the joined text, and the mean is the arithmetic mean of the
\* remaining confidences, 0 if none remain.  Every attempt is the last one
\* of the history in the state that follows it.
C22_TokensDiscarded ==
    (attempts # << >> /\ ~attempts[Len(attempts)].raised) =>
        AttemptDiscards(attempts[Len(attempts)])

\* a Persian attempt and an English attempt whose tables held a structural
\* row and a blank token, both discarded
C22_Witness ==
    /\ attempts # << >>
    /\ LET a == attempts[Len(attempts)]
       IN  /\ ~a.raised
           /\ \E i, j \in 1..Len(a.data) :
                 /\ a.data[i].conf = -1 /\ ~a.data[i].conf_is_str
                 /\ a.data[j].strip_len = 0 /\ a.data[j].conf # -1
           /\ Len(a.boxes) = 2
           /\ lang_mode # ENGLISH

\* the configuration list each language mode gets: the page segmentation
\* modes 11, 3, 4 with tessedit_pageseg_mode for English, 11, 6, 3 otherwise
ConfigsOf(mode) ==
    IF mode = ENGLISH
    THEN << "--oem 1 --psm 11 -c preserve_interword_spaces=1 -c textord_heavy_nr=1 -c tessedit_pageseg_mode=11",
            "--oem 1 --psm 3 -c preserve_interword_spaces=1 -c textord_heavy_nr=1 -c tessedit_pageseg_mode=3",
            "--oem 1 --psm 4 -c preserve_interword_spaces=1 -c textord_heavy_nr=1 -c tessedit_pageseg_mode=4" >>
    ELSE << "--oem 1 --psm 11 -c preserve_interword_spaces=1 -c textord_heavy_nr=1",
            "--oem 1 --psm 6 -c preserve_interword_spaces=1 -c textord_heavy_nr=1",
            "--oem 1 --psm 3 -c preserve_interword_spaces=1 -c textord_heavy_nr=1" >>

\* C23: the recipes, the 3-element configuration list and the normaliser of
\* a run are chosen by the detected language mode alone: the English ones if
\* and only if the detector returned ENGLISH, the Persian/mixed ones for
\* PERSIAN and MIXED; and the result's language_mode is the detector's output.
C23_ModeSelectsPipeline ==
    /\ Preprocessed =>
          /\ processed_images = CandidatesOf(lang_mode)
          /\ ocr_configs = ConfigsOf(lang_mode)
          /\ Len(ocr_configs) = 3
          /\ (processed_images = CandidatesOf(ENGLISH)) = (lang_mode = ENGLISH)
          /\ (ocr_configs = ConfigsOf(ENGLISH)) = (lang_mode = ENGLISH)
    /\ (outcome = "returned" /\ result.success) =>
          /\ result.language_mode = lang_mode
          /\ lang_mode \in { PERSIAN, ENGLISH, MIXED }
          /\ result.normalized_text.len > 0 =>
                result.normalized_text.form = (IF lang_mode = ENGLISH THEN "eng" ELSE "fas")

C23_Witness ==
    /\ outcome = "returned"
    /\ result.success
    /\ result.language_mode = ENGLISH
    /\ result.normalized_text.form = "eng"
    /\ ocr_configs = ConfigsOf(ENGLISH)
    /\ processed_images = CandidatesOf(ENGLISH)

\* how often a character of class occurs in t
CountIn(t, class) == Cardinality({ i \in 1..Len(t) : t[i] \in class })

PersianDigitOf ==
    << "u06F0", "u06F1", "u06F2", "u06F3", "u06F4", "u06F5", "u06F6", "u06F7", "u06F8", "u06F9" >>

\* the characters the tables read as the digit k - 1: its Eastern-Arabic
\* digit and the Latin letters that look like it
ReadAsDigit ==
    << { "u0660", "o", "O" }, { "u0661", "l", "I" }, { "u0662", "Z" }, { "u0663" },
       { "u0664" }, { "u0665", "S" }, { "u0666", "G" }, { "u0667" }, { "u0668", "B" },
       { "u0669" } >>

\* C24: on the Persian/mixed path every Eastern-Arabic digit of the input
\* and every Latin-looking glyph of the tables is mapped to the corresponding
\* Persian digit in the normalised text: the text holds at least as many
\* Persian digits k as the input held characters read as k.
C24_PersianDigits ==
    out.called = "normalize_persian_text" =>
        \A k \in 1..10 :
            CountIn(out.once, { PersianDigitOf[k] }) >= CountIn(input_text, ReadAsDigit[k])

\* the digit runs of t: the lengths of its maximal runs of digits, in order
RECURSIVE DigitRuns(_, _)
DigitRuns(t, i) ==
    IF i > Len(t) THEN << >>
    ELSE LET n == RunLen(From(t, i), Digits)
         IN  IF n = 0 THEN DigitRuns(t, i + 1) ELSE << n >> \o DigitRuns(t, i + n)

\* C28: Persian-path normalisation never inserts a space inside a digit run:
\* every maximal run of digits of the input (ASCII, Persian or
\* Eastern-Arabic) appears in the output as one run of the same length.  The
\* texts looked at hold no letter that the tables turn into a digit.
C28_DigitRunsKept ==
    (out.called = "normalize_persian_text"
       /\ CountIn(input_text, UNION { ReadAsDigit[k] : k \in 1..10 } \ ArabicDigits) = 0) =>
        DigitRuns(out.once, 1) = DigitRuns(input_text, 1)

NoDuplicates(xs) == \A i, j \in 1..Len(xs) : xs[i] = xs[j] => i = j

\* C25: for every input text, extract_structured_data returns persian_words
\* and dates without duplicates, and business_words is exactly the set of
\* the persian_words that are members of the business vocabulary.
C25_WordsAndDatesUnique ==
    out.called = "extract_structured_data" =>
        /\ NoDuplicates(out.data.persian_words)
        /\ NoDuplicates(out.data.dates)
        /\ NoDuplicates(out.data.business_words)
        /\ SetOf(out.data.business_words) =
              SetOf(out.data.persian_words) \cap business_vocabulary

\* a text with a vocabulary word twice, another word, and a date twice
C25_Witness ==
    /\ out.called = "extract_structured_data"
    /\ Len(findall([re |-> "class", class |-> ArabicBlock], input_text, 1)) = 3
    /\ Len(out.data.persian_words) = 2
    /\ Len(out.data.business_words) = 1
    /\ Len(AllDates(input_text, 1)) = 2
    /\ Len(out.data.dates) = 1

\* attempt a cannot become the best result: it raised, matched no token,
\* has mean confidence 0, or (English path) a text of at most 50 characters
CannotBeBest(a) ==
    \/ a.raised
    \/ a.boxes = << >>
    \/ a.avg_conf = Zero
    \/ (lang_mode = ENGLISH /\ a.text_len <= 50)

\* C26: if every attempt of a run raises, matches zero tokens, has mean
\* confidence 0 or (English path) a text of at most 50 characters, the engine
\* still returns success=true, with raw_text "", normalized_text "",
\* confidence 0.0, strategy "" and no bounding box; and in any success result
\* strategy is "" exactly when confidence is 0.0 and exactly when
\* bounding_boxes is empty.
C26_NoBestResult ==
    /\ (outcome = "returned" /\ result.success) =>
          /\ (\A k \in 1..Len(attempts) : CannotBeBest(attempts[k])) =>
                /\ result.raw_text.len = 0
                /\ result.normalized_text.len = 0
                /\ result.confidence = Zero
                /\ result.strategy = ""
                /\ result.bounding_boxes = << >>
          /\ (result.strategy = "") = (result.confidence = Zero)
          /\ (result.strategy = "") = (result.bounding_boxes = << >>)
    /\ (outcome = "returned" /\ Len(attempts) = 9
          /\ \A k \in 1..Len(attempts) : CannotBeBest(attempts[k])) => result.success

\* an English run whose nine answers were tables without a word, words of
\* confidence 0 and texts of 50 characters, and that succeeded with nothing
C26_Witness ==
    /\ outcome = "returned"
    /\ result.success
    /\ result.strategy = ""
    /\ lang_mode = ENGLISH
    /\ Len(attempts) = 9
    /\ \E i, j, k \in 1..9 :
          /\ attempts[i].data = NoWords.data
          /\ attempts[j].data = ZeroLong.data
          /\ attempts[k].data = HighShort.data

C26_WitnessPersian ==
    /\ outcome = "returned"
    /\ result.success
    /\ result.strategy = ""
    /\ lang_mode # ENGLISH
    /\ \E i, j, k \in 1..Len(attempts) :
          /\ attempts[i].raised
          /\ attempts[j].data = ZeroLong.data
          /\ attempts[k].data = NoWords.data

\* the length of the longest prefix of t without whitespace
RECURSIVE WordLen(_)
WordLen(t) == IF t = << >> \/ Head(t) \in Whitespace THEN 0 ELSE 1 + WordLen(Tail(t))

\* the whitespace-delimited tokens of t, from position i on
RECURSIVE TokensOf(_, _)
TokensOf(t, i) ==
    IF i > Len(t) THEN { }
    ELSE LET n == WordLen(From(t, i))
         IN  IF n = 0 THEN TokensOf(t, i + 1)
             ELSE { SubSeq(t, i, i + n - 1) } \cup TokensOf(t, i + n)

\* C27: on the Persian/mixed path every business-vocabulary word that is a
\* whitespace-delimited token of the raw text is reported in
\* structured_data.business_words: normalisation never splits a vocabulary
\* word, those of six or more letters included.
C27_VocabularyWordsReported ==
    out.called = "persian_tail" =>
        \A w \in business_vocabulary :
            w \in TokensOf(input_text, 1) => w \in SetOf(out.structured_data.business_words)

\* C29: a request to a path other than /health, /docs and /openapi.json
\* reaches its handler only if its x-internal-key header equals the configured
\* key; when that key is unset or empty, or the header is missing or empty,
\* the request is rejected, no file is written and no OCR is run.
C29_KeyGate ==
    \A r \in DOMAIN requests :
        requests[r].path \notin { "/health", "/docs", "/openapi.json" } =>
            /\ requests[r].at \in { "handler", "handled" } =>
                  /\ requests[r].header = INTERNAL_API_KEY
                  /\ INTERNAL_API_KEY \notin { << >>, << "" >> }
            /\ (INTERNAL_API_KEY \in { << >>, << "" >> }
                  \/ requests[r].header \in { << >>, << "" >> }
                  \/ requests[r].header # INTERNAL_API_KEY) =>
                  /\ requests[r].at \in { "sent", "rejected" }
                  /\ ~requests[r].ocr_ran
                  /\ \A f \in Filenames : uploads[f] = NoFile

\* an /ocr request with the right key was served; the witness of the
\* rejection is the same request with no key configured and no header
C29_Witness ==
    /\ requests # << >>
    /\ requests[1].path = "/ocr"
    /\ requests[1].header = << "k1" >>
    /\ INTERNAL_API_KEY = << "k1" >>
    /\ requests[1].ocr_ran

C29_WitnessRejected ==
    /\ requests # << >>
    /\ requests[1].path = "/ocr"
    /\ requests[1].header = << >>
    /\ INTERNAL_API_KEY = << >>
    /\ requests[1].at = "rejected"

\* C30: for every page of height h >= 1 and width w >= 1 the crop rectangle
\* satisfies 0 <= x1 < x2 <= w and 0 <= y1 < y2 <= h; along a dimension at
\* least as long as the edge max(min(h, w) // 3, 150) it is the centred span
\* of that edge (so it is the centred square when both are), and along a
\* shorter dimension it is the whole page; the crop is never empty.
C30_CropWithinPage ==
    out.called = "crop" =>
        LET h == input_text[1]
            w == input_text[2]
            least == IF h < w THEN h ELSE w
            edge == IF least \div 3 > 150 THEN least \div 3 ELSE 150
            x1 == out.box[1]
            y1 == out.box[2]
            x2 == out.box[3]
            y2 == out.box[4]
        IN  /\ 0 <= x1 /\ x1 < x2 /\ x2 <= w
            /\ 0 <= y1 /\ y1 < y2 /\ y2 <= h
            /\ w >= edge => x2 - x1 = edge /\ (w - x2) - x1 \in { 0, 1 }
            /\ h >= edge => y2 - y1 = edge /\ (h - y2) - y1 \in { 0, 1 }
            /\ w < edge => x1 = 0 /\ x2 = w
            /\ h < edge => y1 = 0 /\ y2 = h
            /\ (x2 - x1) * (y2 - y1) > 0

\* a 100 x 400 page: clipped to the page in height, the centred span in width
C30_Witness ==
    /\ out.called = "crop"
    /\ input_text = << 100, 400 >>
    /\ out.box = << 125, 0, 275, 100 >>

\* a 459 x 460 page: the centred square of a third of the shorter side
C30_WitnessSquare ==
    /\ out.called = "crop"
    /\ input_text = << 459, 460 >>
    /\ out.box = << 153, 153, 306, 306 >>

====
